---- MODULE Spec2Model ----
(***************************************************************************)
(* State-machine model of the WhatsApp task assistant backend:             *)
(*   - the queue-consuming worker (whatsapp_worker/main.py, processors/),   *)
(*   - the LLM orchestrator retry loop (llm/main.py),                       *)
(*   - the deadline reminder scheduler (whatsapp_worker/scheduler.py),      *)
(*   - the webhook ingress (whatsapp_receive/main.py, queue.py),            *)
(*   - the tool-name sanitizer in one pass of the orchestrator (llm/main.py),*)
(*   - the audio transcription (processors/audio.py, whatsapp/webhook.py).  *)
(* Each component has its own specification over the shared variable list; *)
(* a component's actions leave the other components' variables unchanged.   *)
(***************************************************************************)
EXTENDS Integers, Sequences, FiniteSets, TLC

(***************************************************************************)
(* Bounds of the model                                                     *)
(***************************************************************************)
MaxQueue == 2        \* queue messages that arrive in one behaviour
MaxReceives == 3     \* receive_message calls that return a message in one behaviour

MaxRetries == 3      \* largest max_retries argument tried on chat_with_mcp
MaxTime == 75        \* the clock of the scheduler model stops here (minutes)
ClockStep == 25      \* minutes by which the clock advances in one step
MaxNotified == 3     \* notifications recorded for one task before the model stops sweeping
MaxPosts == 3        \* webhook POSTs in one behaviour
MaxNameLen == 2      \* characters of a clean tool name
MaxTokenLen == 2     \* characters between <| and |> of a corrupted suffix
MaxWordLen == 2      \* characters of the word that ends a corrupted suffix

VARIABLES
    \* ---- worker (whatsapp_worker/main.py, processors/apis.py, audio.py)
    queue,        \* SQS: payload -> [visible, inflight], the numbers of queue
                  \* messages with that body that can be received / are hidden
    receives,     \* messages handed to the worker so far
    arrived,      \* number of messages sent to the queue so far
    event,        \* message id -> kind of the event it names ("unseen": none yet)
    messages,     \* backend Message table: turn -> number of stored rows
    pc,           \* position of the worker loop
    cur,          \* payload of the message being processed
    user_id,      \* handle_webhook / process_audio_sync local
    reply,        \* reply text computed for this delivery
    status_code,  \* status returned by handle_webhook (0: not yet returned)
    effects,      \* side effects of the current delivery, in order
    chat_calls,   \* message id -> entries into chat_with_mcp
    \* ---- orchestrator (llm/main.py chat_with_mcp)
    llm_pc,       \* "idle", "call", "returned", "raised"
    max_retries,  \* argument of the running call
    attempt,      \* loop variable of the retry loop
    invocations,  \* client.responses.create calls made by the running call
    errors,       \* the exceptions raised by those calls, in order
    sleeps,       \* backoff sleeps of the running call, in half seconds
    result,       \* value returned by the call
    response,     \* output items of the response the call returned from
    \* ---- scheduler (whatsapp_worker/scheduler.py, server/routes/internals.py)
    now,          \* wall clock, minutes
    tasks,        \* backend Task table: id -> [deadline, status, assignees]
    sent_reminders, \* task id -> set of reminder types sent (partial map)
    notified,     \* task id -> reminder types sent to its assignees since its
                  \* tracking entry was last dropped, in order
    postponed,    \* task id -> deadline moved later while the task is tracked
    swept,        \* task id -> a cycle with a successful fetch ran since it closed
    fresh,        \* no clock or task change since the last cycle that fetched
    \* ---- ingress (whatsapp_receive/main.py, queue.py)
    sqs_sent,     \* bodies passed to sqs.send_message, in order
    posts,        \* webhook POSTs handled so far
    last_post,    \* the last POST: request and response
    \* ---- tool-name sanitizer (llm/main.py sanitize_tool_calls, chat_with_mcp)
    tool_pc,      \* "request", "created", "sanitized", "returned" / "raised"
    tool_item,    \* the tool item of response.output: [type, name]
    tool_emitted, \* the name as the model emitted it: [clean, tail, kind]
    tool_log,     \* dispatches and sanitizations of this turn, in order
    \* ---- transcription (processors/audio.py and whatsapp/webhook.py
    \*      transcribe_sarvam_audio)
    tr_pc,        \* position inside transcribe_sarvam_audio
    tr_impl,      \* which of the two implementations is running
    tr_files,     \* scratch paths that exist on disk
    tr_known,     \* scratch paths the function holds in its local variables
    tr_path,      \* outcomes of the steps of the running call, in order
    tr_result,    \* how the call ended: [raised, text]
    \* ---- authentication (server/routes/auth.py logout and
    \*      server/dependencies.py get_current_user)
    blacklist,    \* rows of the token blacklist table: token -> number of rows
    auth_log,     \* requests answered so far: [endpoint, token, status, detail]
    \* ---- one run of a scheduler job, step by step (whatsapp_worker/
    \*      scheduler.py check_deadlines and send_daily_reports)
    job,          \* the job that ran last: "none", "deadlines" or "reports"
    job_pc,       \* position inside the running job, "idle" between runs
    job_fetch,    \* how the run's list request ended: "ok" or "failed"
    job_tasks,    \* check_deadlines: fetched tasks not yet processed
    job_users,    \* send_daily_reports: fetched users not yet processed
    job_cur,      \* check_deadlines: [id, minutes, type] of the task being sent
    job_todo,     \* check_deadlines: assignees of that task not yet tried
    job_active,   \* check_deadlines: active_task_ids
    job_data,     \* send_daily_reports: the report data fetched last
    job_log,      \* transmissions attempted in this run, in order
    \* ---- one task under the task endpoints (server/routes/tasks.py)
    task_row,        \* the Task row: [status, title, cancellation_reason, checklist]
    task_assignees,  \* users with an active TaskAssignee row for the task
    task_reply,      \* the last answer: [op, code, notified]
    \* ---- the job executor behind start_scheduler (whatsapp_worker/
    \*      scheduler.py)
    ex_runs,      \* job id -> the running instances of the job, each its phase
    ex_fires,     \* how often a trigger has fired
    ex_last,      \* the last firing: [job, started]
    \* ---- the polling loop of start_worker (whatsapp_worker/main.py), with
    \*      handle_webhook as one step
    loop_pc,      \* position inside the loop
    sqs,          \* message -> "absent", "visible", "inflight" or "deleted"
    loop_msg,     \* the message of the current pass
    polls,        \* receive_message calls so far
    deliveries    \* message -> how often it has been received

workerVars == <<queue, receives, arrived, event, messages, pc, cur, user_id, reply,
                status_code, effects, chat_calls>>
llmVars == <<llm_pc, max_retries, attempt, invocations, errors, sleeps, result, response>>
schedVars == <<now, tasks, sent_reminders, notified, postponed, swept, fresh>>
ingressVars == <<sqs_sent, posts, last_post>>
toolVars == <<tool_pc, tool_item, tool_emitted, tool_log>>
trVars == <<tr_pc, tr_impl, tr_files, tr_known, tr_path, tr_result>>
authVars == <<blacklist, auth_log>>
jobVars == <<job, job_pc, job_fetch, job_tasks, job_users, job_cur, job_todo,
             job_active, job_data, job_log>>
taskVars == <<task_row, task_assignees, task_reply>>
execVars == <<ex_runs, ex_fires, ex_last>>
loopVars == <<loop_pc, sqs, loop_msg, polls, deliveries>>
vars == <<workerVars, llmVars, schedVars, ingressVars, toolVars, trVars, authVars,
          jobVars, taskVars, execVars, loopVars>>

\* What the actions of one component leave unchanged: the other components.
exceptWorker ==
    <<llmVars, schedVars, ingressVars, toolVars, trVars, authVars, jobVars,
      taskVars, execVars, loopVars>>
exceptLLM ==
    <<workerVars, schedVars, ingressVars, toolVars, trVars, authVars, jobVars,
      taskVars, execVars, loopVars>>
exceptSched ==
    <<workerVars, llmVars, ingressVars, toolVars, trVars, authVars, jobVars,
      taskVars, execVars, loopVars>>
exceptIngress ==
    <<workerVars, llmVars, schedVars, toolVars, trVars, authVars, jobVars,
      taskVars, execVars, loopVars>>
exceptTools ==
    <<workerVars, llmVars, schedVars, ingressVars, trVars, authVars, jobVars,
      taskVars, execVars, loopVars>>
exceptTranscribe ==
    <<workerVars, llmVars, schedVars, ingressVars, toolVars, authVars, jobVars,
      taskVars, execVars, loopVars>>
exceptAuth ==
    <<workerVars, llmVars, schedVars, ingressVars, toolVars, trVars, jobVars,
      taskVars, execVars, loopVars>>
\* The scheduler jobs share sent_reminders with the scheduler component.
exceptJobs ==
    <<workerVars, llmVars, now, tasks, notified, postponed, swept, fresh,
      ingressVars, toolVars, trVars, authVars, taskVars, execVars, loopVars>>
exceptTasks ==
    <<workerVars, llmVars, schedVars, ingressVars, toolVars, trVars, authVars,
      jobVars, execVars, loopVars>>
exceptExec ==
    <<workerVars, llmVars, schedVars, ingressVars, toolVars, trVars, authVars,
      jobVars, taskVars, loopVars>>
exceptLoop ==
    <<workerVars, llmVars, schedVars, ingressVars, toolVars, trVars, authVars,
      jobVars, taskVars, execVars>>

(***************************************************************************)
(* WORKER                                                                  *)
(***************************************************************************)

MsgIds == {"m1", "m2"}
NoId == "none"

\* The sender of m1 is a registered user, the sender of m2 is not.
KnownUser == "user"
NoUser == "None"
SenderOf(id) == IF id = "m1" THEN "known" ELSE "unknown"

\* Webhook payloads as they sit in the queue.  kind:
\*   text, audio     a user message of that type
\*   other           a user message of another type (image, ...)
\*   malformed       type "text" without a text field (KeyError in the handler)
\*   status          value.statuses present, no user message
\*   nomsg           neither statuses nor messages
\*   badentry        entry is an empty list (IndexError in the handler)
\*   badjson         the queue body is not JSON (json.loads raises in the loop)
MessageKinds == {"text", "audio", "other", "malformed"}
Payloads ==
    [kind : MessageKinds, id : {"m1"}]
    \cup [kind : {"text", "audio"}, id : {"m2"}]
    \cup [kind : {"status", "nomsg", "badentry", "badjson"}, id : {NoId}]

NoPayload == [kind |-> "none", id |-> NoId]

Turn(direction, wid, uid) ==
    [direction |-> direction, whatsapp_id |-> wid, user_id |-> uid]
Turns == [direction : {"in", "out"}, whatsapp_id : MsgIds, user_id : {NoUser, KnownUser}]

WorkerInit ==
    /\ queue = [p \in Payloads |-> [visible |-> 0, inflight |-> 0]]
    /\ receives = 0
    /\ arrived = 0
    /\ event = [m \in MsgIds |-> "unseen"]
    /\ messages = [turn \in Turns |-> 0]
    /\ pc = "poll"
    /\ cur = NoPayload
    /\ user_id = NoUser
    /\ reply = "none"
    /\ status_code = 0
    /\ effects = <<>>
    /\ chat_calls = [m \in MsgIds |-> 0]

CurPayload == cur
whatsapp_id == CurPayload.id

\* Messages in the queue (received or not) that have not been deleted.
InQueue(p) == queue[p].visible + queue[p].inflight

\* The transport delivers a webhook event and the ingress puts it on the queue.
\* The same event may be delivered again (at-least-once delivery); one message
\* id always names the same event.  The worker looks at the queue only in
\* receive_message, so an arrival is taken at the poll point.
Arrive(p) ==
    /\ pc = "poll"
    /\ arrived < MaxQueue
    /\ p.id # NoId => event[p.id] \in {"unseen", p.kind}
    /\ event' = IF p.id = NoId THEN event ELSE [event EXCEPT ![p.id] = p.kind]
    /\ arrived' = arrived + 1
    /\ queue' = [queue EXCEPT ![p].visible = @ + 1]
    /\ UNCHANGED <<receives, messages, pc, cur, user_id, reply, status_code, effects, chat_calls>>
    /\ UNCHANGED exceptWorker

\* SQS visibility timeout: a received, undeleted message becomes visible again.
VisibilityTimeout(p) ==
    /\ pc = "poll"
    /\ queue[p].inflight > 0
    /\ queue' = [queue EXCEPT ![p].inflight = @ - 1, ![p].visible = @ + 1]
    /\ UNCHANGED <<receives, arrived, event, messages, pc, cur, user_id, reply, status_code, effects, chat_calls>>
    /\ UNCHANGED exceptWorker

\* start_worker: receive_message, then json.loads of the body.  A body that is
\* not JSON raises inside the loop's try: the except branch sleeps and polls
\* again, the message is neither handled nor deleted.
Receive(p) ==
    /\ pc = "poll"
    /\ queue[p].visible > 0
    /\ receives < MaxReceives
    /\ receives' = receives + 1
    /\ queue' = [queue EXCEPT ![p].visible = @ - 1, ![p].inflight = @ + 1]
    /\ IF p.kind = "badjson"
         THEN /\ pc' = "poll"
              /\ cur' = NoPayload
         ELSE /\ pc' = "handle"
              /\ cur' = p
    /\ UNCHANGED <<arrived, event, messages, user_id, reply, status_code, effects, chat_calls>>
    /\ UNCHANGED exceptWorker

OkFail(ok) == IF ok THEN "ok" ELSE "failed"
Effect(op, arg, ok) == [op |-> op, arg |-> arg, res |-> OkFail(ok)]

\* handle_webhook returns (body, status) to start_worker.
Return(status) ==
    /\ status_code' = status
    /\ pc' = "ack"

\* handle_webhook, lines 66-73: unpack the envelope.  An empty entry list raises
\* IndexError, which the handler's except turns into status 500; an envelope
\* with statuses or without messages returns 200 at once.
HandleStart ==
    /\ pc = "handle"
    /\ IF CurPayload.kind = "badentry" THEN Return(500)
       ELSE IF CurPayload.kind \in {"status", "nomsg"} THEN Return(200)
       ELSE /\ pc' = "idem"
            /\ UNCHANGED status_code
    /\ UNCHANGED <<queue, receives, arrived, event, messages, cur, user_id, reply, effects, chat_calls>>
    /\ UNCHANGED exceptWorker

\* server/routes/internals.py check_msg_exists: any stored Message whose
\* payload carries the id, whatever its direction.
check_msg_exists(wid) ==
    \E turn \in Turns : turn.whatsapp_id = wid /\ messages[turn] > 0

check_idempotency_Never(wid, ok) == FALSE

check_idempotency_FailClosed(wid, ok) ==
    IF ok THEN check_msg_exists(wid) ELSE TRUE

\* processors/apis.py check_idempotency: the backend's answer, or False when
\* the request fails.
check_idempotency(wid, ok) ==
    IF ok THEN check_msg_exists(wid) ELSE FALSE

CheckIdempotency_OtherAsText(ok) ==
    /\ pc = "idem"
    /\ effects' = Append(effects, Effect("check", "", ok))
    /\ IF check_idempotency(whatsapp_id, ok) THEN Return(200)
       ELSE IF CurPayload.kind \in {"text", "other"}
         THEN pc' = "lookup" /\ UNCHANGED status_code
       ELSE IF CurPayload.kind = "audio"
         THEN pc' = "a_download" /\ UNCHANGED status_code
       ELSE Return(500)
    /\ UNCHANGED <<queue, receives, arrived, event, messages, cur, user_id, reply, chat_calls>>
    /\ UNCHANGED exceptWorker

\* handle_webhook, lines 75-98: the duplicate check, then the dispatch on the
\* message type.
CheckIdempotency(ok) ==
    /\ pc = "idem"
    /\ effects' = Append(effects, Effect("check", "", ok))
    /\ IF check_idempotency(whatsapp_id, ok) THEN Return(200)
       ELSE IF CurPayload.kind = "text"
         THEN pc' = "lookup" /\ UNCHANGED status_code
       ELSE IF CurPayload.kind = "audio"
         THEN pc' = "a_download" /\ UNCHANGED status_code
       ELSE IF CurPayload.kind = "malformed"
         THEN Return(500)          \* msg["text"] raises KeyError
       ELSE Return(200)            \* text_body stays None
    /\ UNCHANGED <<queue, receives, arrived, event, messages, cur, user_id, reply, chat_calls>>
    /\ UNCHANGED exceptWorker

\* server get_user through processors/apis.py get_user_details: the user's id,
\* or None for an unknown phone (404) and for a failed request.
get_user_details(sender, ok) ==
    IF ok /\ sender = "known" THEN KnownUser ELSE NoUser

\* handle_webhook, lines 101-103.
IdentifyUser(ok) ==
    /\ pc = "lookup"
    /\ user_id' = get_user_details(SenderOf(whatsapp_id), ok)
    /\ effects' = Append(effects, Effect("lookup", "", ok))
    /\ pc' = "store_in"
    /\ UNCHANGED <<queue, receives, arrived, event, messages, cur, reply, status_code, chat_calls>>
    /\ UNCHANGED exceptWorker

\* processors/apis.py store_message with server store_msg: the turn is added
\* to the Message table when the request succeeds; a failed request is logged
\* and reported as False.
store_message(uid, wid, direction, ok) ==
    IF ok THEN [messages EXCEPT ![Turn(direction, wid, uid)] = @ + 1] ELSE messages

NotRegistered == "not_registered"

StoreInbound_AlwaysOrchestrate(ok) ==
    /\ pc = "store_in"
    /\ messages' = store_message(user_id, whatsapp_id, "in", ok)
    /\ effects' = Append(effects, Effect("store_in", "", ok))
    /\ pc' = "llm" /\ UNCHANGED reply
    /\ UNCHANGED <<queue, receives, arrived, event, cur, user_id, status_code, chat_calls>>
    /\ UNCHANGED exceptWorker

\* handle_webhook, lines 105-111: store the inbound turn (the result of
\* store_message is not looked at), then choose between the orchestrator and
\* the fixed reply.
StoreInbound(ok) ==
    /\ pc = "store_in"
    /\ messages' = store_message(user_id, whatsapp_id, "in", ok)
    /\ effects' = Append(effects, Effect("store_in", "", ok))
    /\ IF user_id # NoUser
         THEN pc' = "llm" /\ UNCHANGED reply
         ELSE pc' = "store_out" /\ reply' = NotRegistered
    /\ UNCHANGED <<queue, receives, arrived, event, cur, user_id, status_code, chat_calls>>
    /\ UNCHANGED exceptWorker

generate_llm_response_RawError(how) ==
    CASE how = "no_user" -> "user_not_found"
      [] how = "text"    -> "llm_text"
      [] how = "huge"    -> "system_error"
      [] how = "raised"  -> "raw_error_message"

\* processors/llm.py generate_llm_response.  how:
\*   "no_user"  get_user_details(user_id) gave None: fixed error text, the
\*              orchestrator is not reached
\*   "text"     chat_with_mcp returned a reply
\*   "huge"     chat_with_mcp returned more than 4000 characters
\*   "raised"   chat_with_mcp (or a step before it) raised: fixed apology
LLMOutcomes == {"no_user", "text", "huge", "raised"}
generate_llm_response(how) ==
    CASE how = "no_user" -> "user_not_found"
      [] how = "text"    -> "llm_text"
      [] how = "huge"    -> "system_error"
      [] how = "raised"  -> "ai_error"

\* handle_webhook, line 109.
GenerateResponse(how) ==
    /\ pc = "llm"
    /\ chat_calls' = IF how = "no_user" THEN chat_calls
                     ELSE [chat_calls EXCEPT ![whatsapp_id] = @ + 1]
    /\ reply' = generate_llm_response(how)
    /\ effects' = Append(effects, Effect("llm", how, TRUE))
    /\ pc' = "store_out"
    /\ UNCHANGED <<queue, receives, arrived, event, messages, cur, user_id, status_code>>
    /\ UNCHANGED exceptWorker

\* handle_webhook, line 115.
StoreOutbound(ok) ==
    /\ pc = "store_out"
    /\ messages' = store_message(user_id, whatsapp_id, "out", ok)
    /\ effects' = Append(effects, Effect("store_out", "", ok))
    /\ pc' = "send"
    /\ UNCHANGED <<queue, receives, arrived, event, cur, user_id, reply, status_code, chat_calls>>
    /\ UNCHANGED exceptWorker

\* handle_webhook, lines 117-120: send the reply (send_whatsapp_text reports a
\* failure through its return value, which is not looked at) and return 200.
SendReply(ok) ==
    /\ pc = "send"
    /\ effects' = Append(effects, Effect("send", reply, ok))
    /\ Return(200)
    /\ UNCHANGED <<queue, receives, arrived, event, messages, cur, user_id, reply, chat_calls>>
    /\ UNCHANGED exceptWorker

\* processors/audio.py process_audio_sync, lines 133-138: download the media;
\* on failure tell the sender and return.
AudioDownload(ok) ==
    /\ pc = "a_download"
    /\ IF ok
         THEN /\ effects' = Append(effects, Effect("download", "", TRUE))
              /\ pc' = "a_lookup"
              /\ UNCHANGED status_code
         ELSE /\ effects' = Append(Append(effects, Effect("download", "", FALSE)),
                                   Effect("send", "download_error", TRUE))
              /\ Return(200)
    /\ UNCHANGED <<queue, receives, arrived, event, messages, cur, user_id, reply, chat_calls>>
    /\ UNCHANGED exceptWorker

\* process_audio_sync, lines 140-149: an unknown sender gets the fixed reply
\* and nothing is stored.
AudioIdentifyUser(ok) ==
    /\ pc = "a_lookup"
    /\ user_id' = get_user_details(SenderOf(whatsapp_id), ok)
    /\ IF user_id' = NoUser
         THEN /\ effects' = Append(Append(effects, Effect("lookup", "", ok)),
                                   Effect("send", NotRegistered, TRUE))
              /\ Return(200)
         ELSE /\ effects' = Append(effects, Effect("lookup", "", ok))
              /\ pc' = "a_transcribe"
              /\ UNCHANGED status_code
    /\ UNCHANGED <<queue, receives, arrived, event, messages, cur, reply, chat_calls>>
    /\ UNCHANGED exceptWorker

AudioTranscribe_NoMarkerCheck(transcript) ==
    /\ pc = "a_transcribe"
    /\ IF transcript \in {"text", "error"}
         THEN /\ effects' = Append(effects, Effect("transcribe", transcript, transcript = "text"))
              /\ pc' = "a_store_in"
              /\ UNCHANGED status_code
         ELSE /\ effects' = Append(Append(effects, Effect("transcribe", transcript, FALSE)),
                                   Effect("send",
                                          CASE transcript = "empty" -> "heard_nothing"
                                            [] transcript = "raised" -> "audio_apology",
                                          TRUE))
              /\ Return(200)
    /\ UNCHANGED <<queue, receives, arrived, event, messages, cur, user_id, reply, chat_calls>>
    /\ UNCHANGED exceptWorker

\* process_audio_sync, lines 151-161 and 177-182.  transcript:
\*   "text"    a non-empty transcript
\*   "error"   a string starting with "Error:"
\*   "empty"   an empty or blank transcript
\*   "raised"  transcribe_sarvam_audio raised (the real-time request failed
\*             with something other than an HTTP status error)
Transcripts == {"text", "error", "empty", "raised"}
AudioTranscribe(transcript) ==
    /\ pc = "a_transcribe"
    /\ IF transcript = "text"
         THEN /\ effects' = Append(effects, Effect("transcribe", transcript, TRUE))
              /\ pc' = "a_store_in"
              /\ UNCHANGED status_code
         ELSE /\ effects' = Append(Append(effects, Effect("transcribe", transcript, FALSE)),
                                   Effect("send",
                                          CASE transcript = "error" -> "transcript_error"
                                            [] transcript = "empty" -> "heard_nothing"
                                            [] transcript = "raised" -> "audio_apology",
                                          TRUE))
              /\ Return(200)
    /\ UNCHANGED <<queue, receives, arrived, event, messages, cur, user_id, reply, chat_calls>>
    /\ UNCHANGED exceptWorker

\* process_audio_sync, line 166.
AudioStoreInbound(ok) ==
    /\ pc = "a_store_in"
    /\ messages' = store_message(user_id, whatsapp_id, "in", ok)
    /\ effects' = Append(effects, Effect("store_in", "", ok))
    /\ pc' = "a_llm"
    /\ UNCHANGED <<queue, receives, arrived, event, cur, user_id, reply, status_code, chat_calls>>
    /\ UNCHANGED exceptWorker

\* process_audio_sync, line 169.
AudioGenerateResponse(how) ==
    /\ pc = "a_llm"
    /\ chat_calls' = IF how = "no_user" THEN chat_calls
                     ELSE [chat_calls EXCEPT ![whatsapp_id] = @ + 1]
    /\ reply' = generate_llm_response(how)
    /\ effects' = Append(effects, Effect("llm", how, TRUE))
    /\ pc' = "a_store_out"
    /\ UNCHANGED <<queue, receives, arrived, event, messages, cur, user_id, status_code>>
    /\ UNCHANGED exceptWorker

\* process_audio_sync, lines 172-175, then handle_webhook line 95.
AudioStoreOutboundAndSend(stored, sent) ==
    /\ pc = "a_store_out"
    /\ messages' = store_message(user_id, whatsapp_id, "out", stored)
    /\ effects' = Append(Append(effects, Effect("store_out", "", stored)),
                         Effect("send", reply, sent))
    /\ Return(200)
    /\ UNCHANGED <<queue, receives, arrived, event, cur, user_id, reply, chat_calls>>
    /\ UNCHANGED exceptWorker

Acknowledge_NoStatusCheck(may_delete, ok) ==
    IF ok
      THEN queue' = [queue EXCEPT ![cur].inflight = @ - 1]
      ELSE UNCHANGED queue

\* start_worker, lines 49-62: delete the message when handle_webhook returned
\* 200 (a failing delete_message raises and is caught by the loop's except),
\* otherwise log a warning; either way poll again.
Acknowledge(may_delete, ok) ==
    IF may_delete /\ ok
      THEN queue' = [queue EXCEPT ![cur].inflight = @ - 1]
      ELSE UNCHANGED queue

Ack(ok) ==
    /\ pc = "ack"
    /\ Acknowledge(status_code = 200, ok)
    /\ pc' = "poll"
    /\ cur' = NoPayload
    /\ user_id' = NoUser
    /\ reply' = "none"
    /\ status_code' = 0
    /\ effects' = <<>>
    /\ UNCHANGED <<receives, arrived, event, messages, chat_calls>>
    /\ UNCHANGED exceptWorker

Next ==
    \/ \E p \in Payloads : Arrive(p)
    \/ \E p \in Payloads : VisibilityTimeout(p)
    \/ \E p \in Payloads : Receive(p)
    \/ HandleStart
    \/ \E ok \in BOOLEAN : CheckIdempotency(ok)
    \/ \E ok \in BOOLEAN : IdentifyUser(ok)
    \/ \E ok \in BOOLEAN : StoreInbound(ok)
    \/ \E how \in LLMOutcomes : GenerateResponse(how)
    \/ \E ok \in BOOLEAN : StoreOutbound(ok)
    \/ \E ok \in BOOLEAN : SendReply(ok)
    \/ \E ok \in BOOLEAN : AudioDownload(ok)
    \/ \E ok \in BOOLEAN : AudioIdentifyUser(ok)
    \/ \E t \in Transcripts : AudioTranscribe(t)
    \/ \E ok \in BOOLEAN : AudioStoreInbound(ok)
    \/ \E how \in LLMOutcomes : AudioGenerateResponse(how)
    \/ \E stored, sent \in BOOLEAN : AudioStoreOutboundAndSend(stored, sent)
    \/ \E ok \in BOOLEAN : Ack(ok)

(***************************************************************************)
(* ORCHESTRATOR: llm/main.py chat_with_mcp                                 *)
(***************************************************************************)

\* The substrings that mark a recoverable tool-call error.
ToolErrorKeywords ==
    {"tool call validation failed", "tool_use_failed", "invalid_request_error"}

\* An exception raised by client.responses.create is modelled by the set of
\* those keywords that occur in its lower-cased message; the empty set is any
\* other error (a timeout, a rate limit, ...).
ErrorMsgs == SUBSET ToolErrorKeywords

is_tool_error_Any(error_msg) == TRUE

is_tool_error(error_msg) ==
    \E keyword \in ToolErrorKeywords : keyword \in error_msg

RetryAllowed_OneLess(att, retries) == att + 1 < retries

\* The guard attempt < max_retries of the except clause.
RetryAllowed(att, retries) == att < retries

\* The branch taken in the except clause: retry after a backoff, or re-raise.
ShouldRetry(error_msg, att, retries) ==
    is_tool_error(error_msg) /\ RetryAllowed(att, retries)

\* backoff_time = 0.5 * (attempt + 1), counted in half seconds.
backoff_time(att) == att + 1

\* A response is the sequence of its output items.  An item is a message whose
\* first output_text content is "a", "b" or the empty string, a message
\* without any output_text content, or a tool_use item.
Items == {"message:a", "message:b", "message:blank", "message:empty", "tool_use"}
Responses == {<<>>} \cup {<<i>> : i \in Items} \cup {<<i, j>> : i, j \in Items}

HasText(item) == item \in {"message:a", "message:b", "message:blank"}
TextOf(item) ==
    CASE item = "message:a" -> "a"
      [] item = "message:b" -> "b"
      [] OTHER -> ""

NoResponse_Empty == ""

NoResponse == "No response generated."

\* The text of the first message item that has an output_text content.
RECURSIVE ExtractText(_)
ExtractText(output) ==
    IF output = <<>> THEN NoResponse
    ELSE IF HasText(Head(output)) THEN TextOf(Head(output))
    ELSE ExtractText(Tail(output))

LLMInit ==
    /\ llm_pc = "idle"
    /\ max_retries = 0
    /\ attempt = 0
    /\ invocations = 0
    /\ errors = <<>>
    /\ sleeps = <<>>
    /\ result = ""
    /\ response = <<>>

\* chat_with_mcp is called: the retry loop starts at attempt 0.
ChatStart(retries) ==
    /\ llm_pc = "idle"
    /\ llm_pc' = "call"
    /\ max_retries' = retries
    /\ attempt' = 0
    /\ invocations' = 0
    /\ errors' = <<>>
    /\ sleeps' = <<>>
    /\ result' = ""
    /\ response' = <<>>
    /\ UNCHANGED exceptLLM

\* One pass of the loop body in which client.responses.create succeeds.
ChatAttemptOk(output) ==
    /\ llm_pc = "call"
    /\ invocations' = invocations + 1
    /\ response' = output
    /\ result' = ExtractText(output)
    /\ llm_pc' = "returned"
    /\ UNCHANGED <<max_retries, attempt, errors, sleeps>>
    /\ UNCHANGED exceptLLM

\* One pass of the loop body in which client.responses.create raises.  After
\* a retry the for loop goes on while attempt is in range(max_retries + 1);
\* past the range the statement after the loop raises last_error.
ChatAttemptRaise(error_msg) ==
    /\ llm_pc = "call"
    /\ invocations' = invocations + 1
    /\ errors' = Append(errors, error_msg)
    /\ IF ShouldRetry(error_msg, attempt, max_retries)
         THEN /\ sleeps' = Append(sleeps, backoff_time(attempt))
              /\ attempt' = attempt + 1
              /\ llm_pc' = IF attempt + 1 < max_retries + 1 THEN "call" ELSE "raised"
         ELSE /\ llm_pc' = "raised"
              /\ UNCHANGED <<sleeps, attempt>>
    /\ UNCHANGED <<max_retries, result, response>>
    /\ UNCHANGED exceptLLM

NextLLM ==
    \/ \E retries \in 0..MaxRetries : ChatStart(retries)
    \/ \E output \in Responses : ChatAttemptOk(output)
    \/ \E error_msg \in ErrorMsgs : ChatAttemptRaise(error_msg)

(***************************************************************************)
(* SCHEDULER: whatsapp_worker/scheduler.py, server/routes/internals.py,     *)
(* with the task edits of server/routes/tasks.py as its environment         *)
(***************************************************************************)

TaskIds == {1, 2}
Assignees == {"a1", "a2"}          \* users with a phone number
Deadlines == {8, 55, 100}          \* deadlines on the model's clock, minutes

\* Task 1 is edited freely; task 2 is the other task of a sweep: its deadline
\* stays where it is and it has at most one assignee.
DeadlinesOf(t) == IF t = 1 THEN Deadlines ELSE {55}
AssigneesOf(t) == IF t = 1 THEN Assignees ELSE {"a1"}
Statuses == {"in_progress", "completed", "cancelled"}
Closed == {"completed", "cancelled"}

REMINDER_60_MIN == 60
REMINDER_10_MIN == 10
LookbackMinutes == 1440            \* timedelta(hours=24)
LookaheadMinutes == 120            \* timedelta(hours=2)

ReminderTypes == {"60min", "10min", "overdue"}
Urgency(r) == CASE r = "60min" -> 1 [] r = "10min" -> 2 [] r = "overdue" -> 3

SchedInit ==
    /\ now = 0
    /\ tasks = [t \in TaskIds |-> [deadline |-> 55, status |-> "in_progress", assignees |-> {}]]
    /\ sent_reminders = <<>>
    /\ notified = [t \in TaskIds |-> <<>>]
    /\ postponed = [t \in TaskIds |-> FALSE]
    /\ swept = [t \in TaskIds |-> FALSE]
    /\ fresh = FALSE

Tracked == DOMAIN sent_reminders

\* Time passes.
Tick ==
    /\ now + ClockStep <= MaxTime
    /\ now' = now + ClockStep
    /\ fresh' = FALSE
    /\ UNCHANGED <<tasks, sent_reminders, notified, postponed, swept>>
    /\ UNCHANGED exceptSched

\* server/routes/tasks.py update_task with a new deadline: rejected for a
\* cancelled task.
UpdateTaskDeadline(t, d) ==
    /\ tasks[t].status # "cancelled"
    /\ d # tasks[t].deadline
    /\ tasks' = [tasks EXCEPT ![t].deadline = d]
    /\ postponed' = [postponed EXCEPT ![t] = @ \/ (t \in Tracked /\ d > tasks[t].deadline)]
    /\ fresh' = FALSE
    /\ UNCHANGED <<now, sent_reminders, notified, swept>>
    /\ UNCHANGED exceptSched

\* update_task with a new status, or cancel_task.
UpdateTaskStatus(t, s) ==
    /\ tasks[t].status # "cancelled"
    /\ s # tasks[t].status
    /\ tasks' = [tasks EXCEPT ![t].status = s]
    /\ swept' = [swept EXCEPT ![t] = FALSE]
    /\ fresh' = FALSE
    /\ UNCHANGED <<now, sent_reminders, notified, postponed>>
    /\ UNCHANGED exceptSched

\* assign_task / unassign_task: the task's active assignees change.
AssignTask(t, a) ==
    /\ tasks[t].status # "cancelled"
    /\ a \notin tasks[t].assignees
    /\ tasks' = [tasks EXCEPT ![t].assignees = @ \cup {a}]
    /\ fresh' = FALSE
    /\ UNCHANGED <<now, sent_reminders, notified, postponed, swept>>
    /\ UNCHANGED exceptSched

UnassignTask(t, a) ==
    /\ tasks[t].status # "cancelled"
    /\ a \in tasks[t].assignees
    /\ tasks' = [tasks EXCEPT ![t].assignees = @ \ {a}]
    /\ fresh' = FALSE
    /\ UNCHANGED <<now, sent_reminders, notified, postponed, swept>>
    /\ UNCHANGED exceptSched

\* server get_tasks_with_deadlines: the tasks with a deadline inside the
\* window that are neither completed nor cancelled and have an assignee with
\* a phone number.
get_tasks_with_deadlines ==
    {t \in TaskIds :
        /\ tasks[t].deadline >= now - LookbackMinutes
        /\ tasks[t].deadline <= now + LookaheadMinutes
        /\ tasks[t].status \notin Closed
        /\ tasks[t].assignees # {}}

\* scheduler.py _get_tasks_with_deadlines: the empty list when the request
\* fails.
FetchTasks(ok) == IF ok THEN get_tasks_with_deadlines ELSE {}

_should_send_reminder_Always(sr, task_id, reminder_type) == TRUE

_should_send_reminder(sr, task_id, reminder_type) ==
    IF task_id \notin DOMAIN sr THEN TRUE
    ELSE reminder_type \notin sr[task_id]

_mark_reminder_sent(sr, task_id, reminder_type) ==
    [x \in DOMAIN sr \cup {task_id} |->
        IF x = task_id
          THEN (IF task_id \in DOMAIN sr THEN sr[task_id] ELSE {}) \cup {reminder_type}
          ELSE sr[x]]

_cleanup_completed_tasks(sr, active_task_ids) ==
    [x \in DOMAIN sr \cap active_task_ids |-> sr[x]]

TierOf_Swapped(minutes_until) ==
    IF minutes_until <= 0 THEN "60min"
    ELSE IF minutes_until <= REMINDER_10_MIN THEN "10min"
    ELSE IF minutes_until <= REMINDER_60_MIN THEN "overdue"
    ELSE "none"

\* check_deadlines, lines 126-143: the branch chosen from the minutes left.
TierOf(minutes_until) ==
    IF minutes_until <= 0 THEN "overdue"
    ELSE IF minutes_until <= REMINDER_10_MIN THEN "10min"
    ELSE IF minutes_until <= REMINDER_60_MIN THEN "60min"
    ELSE "none"

\* The reminder type check_deadlines sends for a task, "none" when the branch
\* finds the type already sent or no branch applies.
ReminderFor(sr, t) ==
    LET r == TierOf(tasks[t].deadline - now)
    IN IF r # "none" /\ _should_send_reminder(sr, t, r) THEN r ELSE "none"

\* check_deadlines, lines 92-159: the loop over the fetched tasks.
RECURSIVE SweepTasks(_, _)
SweepTasks(sr, todo) ==
    IF todo = {} THEN sr
    ELSE LET t == CHOOSE x \in todo : \A y \in todo : x <= y
             r == ReminderFor(sr, t)
         IN SweepTasks(IF r = "none" THEN sr ELSE _mark_reminder_sent(sr, t, r),
                       todo \ {t})

\* One run of check_deadlines.
CheckDeadlines(fetch_ok) ==
    LET fetched == FetchTasks(fetch_ok)
        marked == SweepTasks(sent_reminders, fetched)
        kept == _cleanup_completed_tasks(marked, fetched)
        sentNow(t) == IF t \in fetched THEN ReminderFor(sent_reminders, t) ELSE "none"
        dropped == DOMAIN marked \ DOMAIN kept
    IN /\ \A t \in TaskIds : Len(notified[t]) <= MaxNotified
       /\ fresh' = fetch_ok
       /\ swept' = [t \in TaskIds |-> swept[t] \/ (fetch_ok /\ tasks[t].status \in Closed)]
       /\ IF fetched = {}
            THEN UNCHANGED <<sent_reminders, notified, postponed>>
            ELSE /\ sent_reminders' = kept
                 /\ notified' = [t \in TaskIds |->
                        IF t \in dropped THEN <<>>
                        ELSE IF sentNow(t) # "none"
                          THEN Append(notified[t], sentNow(t))
                        ELSE notified[t]]
                 /\ postponed' = [t \in TaskIds |-> IF t \in dropped THEN FALSE ELSE postponed[t]]
       /\ UNCHANGED <<now, tasks>>
       /\ UNCHANGED exceptSched

NextSched ==
    \/ Tick
    \/ \E t \in TaskIds : \E d \in DeadlinesOf(t) : UpdateTaskDeadline(t, d)
    \/ \E t \in TaskIds, s \in Statuses : UpdateTaskStatus(t, s)
    \/ \E t \in TaskIds : \E a \in AssigneesOf(t) : AssignTask(t, a)
    \/ \E t \in TaskIds : \E a \in AssigneesOf(t) : UnassignTask(t, a)
    \/ \E fetch_ok \in BOOLEAN : CheckDeadlines(fetch_ok)

(***************************************************************************)
(* INGRESS: whatsapp_receive/main.py webhook_receive, queue.py push_to_queue, *)
(* whatsapp/security.py validate_signature                                  *)
(***************************************************************************)

\* The JSON values a request body can hold: two webhook events, the empty
\* object, and a non-empty array (a JSON value that is not an object).
JsonValues == {"event1", "event2", "{}", "[1]"}

\* A raw body is a text: either the text json.dumps writes for a value
\* (form "dumps"), another text of the same value (other whitespace, escapes
\* or number spelling), or a text that is not JSON at all.
RawBodies ==
    [val : JsonValues, form : {"dumps", "other"}]
    \cup {[val |-> "invalid", form |-> "other"]}

\* request.json(): the value of the text; body = {} when parsing fails.
ParseBody(raw) == IF raw.val = "invalid" THEN "{}" ELSE raw.val

json_dumps(value) == [val |-> value, form |-> "dumps"]

\* The X-Hub-Signature-256 header of a request:
\*   "absent"    no such header
\*   "noprefix"  a value that does not start with "sha256="
\*   "valid"     sha256= followed by the HMAC of the raw body under the secret
\*   "invalid"   sha256= followed by anything else
Signatures == {"absent", "noprefix", "valid", "invalid"}

\* whatsapp/security.py validate_signature.
validate_signature(signature, app_secret_set) ==
    IF signature \in {"absent", "noprefix"} \/ ~app_secret_set THEN TRUE
    ELSE signature = "valid"

IngressInit ==
    /\ sqs_sent = <<>>
    /\ posts = 0
    /\ last_post = [raw |-> [val |-> "invalid", form |-> "other"], signature |-> "absent",
                    secret |-> FALSE, attempted |-> FALSE, sent |-> <<>>, status |-> 0]

\* queue.py push_to_queue.  The signature check is commented out in the source
\* (lines 36-37), so the function goes straight to the queue.  The debug print
\* of line 33 calls body.keys() on any truthy body and raises for a JSON value
\* that is not an object, before the try block.
push_to_queue(body, sqs_ok) ==
    IF body = "[1]"
      THEN [attempted |-> FALSE, sent |-> <<>>, status |-> 500]
    ELSE IF sqs_ok
      THEN [attempted |-> TRUE, sent |-> <<json_dumps(body)>>, status |-> 200]
    ELSE [attempted |-> TRUE, sent |-> <<>>, status |-> 500]

\* main.py webhook_receive: POST /webhook.
Post(raw, signature, secret, sqs_ok) ==
    LET r == push_to_queue(ParseBody(raw), sqs_ok)
    IN /\ posts < MaxPosts
       /\ posts' = posts + 1
       /\ sqs_sent' = sqs_sent \o r.sent
       /\ last_post' = [raw |-> raw, signature |-> signature, secret |-> secret,
                        attempted |-> r.attempted, sent |-> r.sent, status |-> r.status]
       /\ UNCHANGED exceptIngress

NextIngress ==
    \E raw \in RawBodies, signature \in Signatures, secret, sqs_ok \in BOOLEAN :
        Post(raw, signature, secret, sqs_ok)

(***************************************************************************)
(* TOOL NAMES: llm/main.py sanitize_tool_calls and the loop body of         *)
(* chat_with_mcp that calls it                                              *)
(***************************************************************************)

\* A string is a sequence of characters.  "a" stands for the class [a-z_] of
\* the pattern, "Z" for an identifier character outside it (upper case, a
\* digit); the other three are the characters the pattern names.
Chars == {"a", "Z", "<", "|", ">"}
WordChars == {"a"}
NameChars == {"a", "Z"}
TokenChars == Chars \ {"|"}

SeqsUpTo(S, n) == UNION {[1..k -> S] : k \in 1..n}

\* Tool names as the MCP server declares them, and the suffixes the model
\* appends: <|token|>word, i.e. the strings the whole pattern matches.
CleanNames == SeqsUpTo(NameChars, MaxNameLen)
Suffixes ==
    {<<"<", "|">> \o t \o <<"|", ">">> \o w :
        t \in SeqsUpTo(TokenChars, MaxTokenLen), w \in SeqsUpTo(WordChars, MaxWordLen)}

\* A suffix with one character missing: names that look corrupted but mostly
\* do not match the pattern.
DropChar(str, k) == SubSeq(str, 1, k - 1) \o SubSeq(str, k + 1, Len(str))
BrokenSuffixes == UNION {{DropChar(sfx, k) : k \in 1..Len(sfx)} : sfx \in Suffixes}

\* A suffix inside the token of a suffix: the shortest suffix, <|a|>a, put
\* after the first token character of another one.
InnerSuffix == <<"<", "|", "a", "|", ">", "a">>
NestedSuffixes ==
    {SubSeq(sfx, 1, 3) \o InnerSuffix \o SubSeq(sfx, 4, Len(sfx)) : sfx \in Suffixes}

\* The index of the first "|" of str at or after k (0: none).
RECURSIVE FirstPipe(_, _)
FirstPipe(str, k) ==
    IF k > Len(str) THEN 0
    ELSE IF str[k] = "|" THEN k
    ELSE FirstPipe(str, k + 1)

\* The index of the last character of the run of [a-z_] that starts at k.
RECURSIVE WordEnd(_, _)
WordEnd(str, k) ==
    IF k + 1 <= Len(str) /\ str[k + 1] \in WordChars THEN WordEnd(str, k + 1) ELSE k

MatchEnd_MarkerOnly(str, i) ==
    IF i + 1 > Len(str) \/ str[i] # "<" \/ str[i + 1] # "|" THEN 0
    ELSE LET j == FirstPipe(str, i + 2)
         IN IF \/ j = 0
               \/ j = i + 2
               \/ j + 2 > Len(str)
               \/ str[j + 1] # ">"
               \/ str[j + 2] \notin WordChars
              THEN 0
              ELSE j + 1

\* corruption_pattern = r'<\|[^|]+\|>[a-z_]+' tried at position i: the index of
\* the last character of the match, 0 when there is none.  [^|]+ cannot run
\* over a "|", so the token ends right before the first "|" after "<|".
MatchEnd(str, i) ==
    IF i + 1 > Len(str) \/ str[i] # "<" \/ str[i + 1] # "|" THEN 0
    ELSE LET j == FirstPipe(str, i + 2)
         IN IF \/ j = 0
               \/ j = i + 2
               \/ j + 2 > Len(str)
               \/ str[j + 1] # ">"
               \/ str[j + 2] \notin WordChars
              THEN 0
              ELSE WordEnd(str, j + 2)

HasMatch(str) == \E i \in 1..Len(str) : MatchEnd(str, i) # 0

\* re.sub(corruption_pattern, '', name) from position i on: every leftmost
\* non-overlapping match is removed.
RECURSIVE re_sub(_, _)
re_sub(str, i) ==
    IF i > Len(str) THEN <<>>
    ELSE IF MatchEnd(str, i) # 0 THEN re_sub(str, MatchEnd(str, i) + 1)
    ELSE <<str[i]>> \o re_sub(str, i + 1)

\* Output items that carry a tool name.  sanitize_tool_calls looks at items
\* of type 'tool_use' only; 'mcp_call' is another item type with a name.
ToolItemTypes == {"tool_use", "mcp_call"}
NoItem == [type |-> "none", name |-> <<>>]
\* What the model emitted: a clean name and what follows it (kind "suffix": a
\* corrupted suffix, "broken": a suffix with a character missing, "nested": a
\* suffix with a suffix inside its token, "none": nothing).
NoEmitted == [clean |-> <<>>, tail |-> <<>>, kind |-> "none"]
Emitted ==
    [clean : CleanNames, tail : Suffixes, kind : {"suffix"}]
    \cup [clean : CleanNames, tail : BrokenSuffixes, kind : {"broken"}]
    \cup [clean : CleanNames, tail : NestedSuffixes, kind : {"nested"}]
    \cup [clean : CleanNames, tail : {<<>>}, kind : {"none"}]
EmittedName(e) == e.clean \o e.tail

sanitize_tool_calls(item) ==
    IF item.type = "tool_use"
      THEN [item EXCEPT !.name = re_sub(item.name, 1)]
      ELSE item

ToolInit ==
    /\ tool_pc = "request"
    /\ tool_item = NoItem
    /\ tool_emitted = NoEmitted
    /\ tool_log = <<>>

\* One pass of the loop body of chat_with_mcp.
\* Line 196: client.responses.create with the mcp tool of kwargs
\* (require_approval "never").  The provider runs the model and calls the MCP
\* server itself with the tool name the model emitted, before the response
\* comes back; or it rejects the tool call and create raises, which takes the
\* except clause (no sanitization in this pass).
ToolCreate(type, emitted, executed) ==
    /\ tool_pc = "request"
    /\ tool_emitted' = emitted
    /\ IF executed
         THEN /\ tool_item' = [type |-> type, name |-> EmittedName(emitted)]
              /\ tool_log' = <<[ev |-> "dispatch", name |-> EmittedName(emitted)]>>
              /\ tool_pc' = "created"
         ELSE /\ tool_item' = NoItem
              /\ tool_log' = <<>>
              /\ tool_pc' = "raised"
    /\ UNCHANGED exceptTools

\* chat_with_mcp, line 199.
ToolSanitize ==
    /\ tool_pc = "created"
    /\ tool_item' = sanitize_tool_calls(tool_item)
    /\ tool_log' = Append(tool_log, [ev |-> "sanitize", name |-> tool_item'.name])
    /\ tool_pc' = "sanitized"
    /\ UNCHANGED tool_emitted
    /\ UNCHANGED exceptTools

\* chat_with_mcp, lines 201-209: the text is extracted and returned; nothing
\* is done with the tool items.
ToolReturn ==
    /\ tool_pc = "sanitized"
    /\ tool_pc' = "returned"
    /\ UNCHANGED <<tool_item, tool_emitted, tool_log>>
    /\ UNCHANGED exceptTools

NextTools ==
    \/ /\ tool_pc = "request"
       /\ \E type \in ToolItemTypes : \E emitted \in Emitted : \E executed \in BOOLEAN :
             ToolCreate(type, emitted, executed)
    \/ ToolSanitize
    \/ ToolReturn

(***************************************************************************)
(* TRANSCRIPTION: transcribe_sarvam_audio of the queue worker                *)
(* (whatsapp_worker/processors/audio.py) and of the older in-process         *)
(* webhook handler (whatsapp/webhook.py)                                     *)
(***************************************************************************)

Implementations == {"worker", "webhook"}

\* Scratch paths.  The worker keeps everything inside one TemporaryDirectory;
\* the webhook module makes a NamedTemporaryFile(delete=False) and a mkdtemp
\* directory.
InputFile(impl) == IF impl = "worker" THEN "temp_dir/input.ogg" ELSE "tmp.ogg"
OutputDir(impl) == IF impl = "worker" THEN "temp_dir/output" ELSE "tmp_out"
TempDir == "temp_dir"
ScratchPaths == {TempDir} \cup {InputFile(i) : i \in Implementations}
                          \cup {OutputDir(i) : i \in Implementations}

\* shutil.rmtree, as TemporaryDirectory's exit and the finally block call it.
Under(dir) ==
    IF dir = TempDir THEN {TempDir, InputFile("worker"), OutputDir("worker")} ELSE {dir}
rmtree(files, dir) == files \ Under(dir)

NoResult == [raised |-> FALSE, text |-> "none"]

TrInit ==
    /\ tr_pc = "idle"
    /\ tr_impl = "none"
    /\ tr_files = {}
    /\ tr_known = {}
    /\ tr_path = <<>>
    /\ tr_result = NoResult

\* The function returns text / lets an exception escape.
TrReturns(text) ==
    /\ tr_result' = [raised |-> FALSE, text |-> text]
    /\ tr_pc' = "done"
TrRaises ==
    /\ tr_result' = [raised |-> TRUE, text |-> "none"]
    /\ tr_pc' = "done"

\* What is on disk after the batch block is left.  worker: the with statement
\* of line 85 removes the temporary directory on every exit.  webhook: the
\* finally block of lines 201-216 removes the paths held in temp_audio_file
\* and temp_output_dir.
RECURSIVE RemoveAll(_, _)
RemoveAll(files, dirs) ==
    IF dirs = {} THEN files
    ELSE LET dir == CHOOSE x \in dirs : TRUE
         IN RemoveAll(rmtree(files, dir), dirs \ {dir})

LeaveBatch(impl, files, known) ==
    IF impl = "worker" THEN rmtree(files, TempDir) ELSE RemoveAll(files, known)

\* transcribe_sarvam_audio is entered: without an API key it returns the
\* "not configured" error at once.
TrCall(impl, api_key) ==
    /\ tr_pc = "idle"
    /\ tr_impl' = impl
    /\ tr_known' = {}
    /\ tr_path' = <<>>
    /\ IF api_key
         THEN tr_pc' = "rest" /\ tr_result' = NoResult
         ELSE TrReturns("error")
    /\ UNCHANGED tr_files
    /\ UNCHANGED exceptTranscribe

\* Outcomes of the real-time request: a transcript, a blank transcript, an
\* HTTP error status, or no response at all.
RestOutcomes == {"transcript", "empty", "http_400", "http_413", "http_500",
                 "timeout", "connection"}

SizeLimit_AnyStatus == {"http_400", "http_413", "http_500"}

SizeLimit == {"http_400", "http_413"}
HttpErrors == {"http_400", "http_413", "http_500"}

\* worker, lines 71-81: only HTTPError is caught; 400 and 413 fall through to
\* the batch path, another status returns an error string, any other
\* exception of requests.post leaves the function.
\* webhook, lines 109-118 and 218-220: every HTTPError falls back to the batch
\* path, any other exception is turned into an error string.
TrRest(outcome) ==
    /\ tr_pc = "rest"
    /\ tr_path' = Append(tr_path, outcome)
    /\ IF outcome \in {"transcript", "empty"} THEN TrReturns(outcome)
       ELSE IF tr_impl = "worker"
         THEN IF outcome \in SizeLimit THEN tr_pc' = "batch_write" /\ UNCHANGED tr_result
              ELSE IF outcome \in HttpErrors THEN TrReturns("error")
              ELSE TrRaises
         ELSE IF outcome \in HttpErrors THEN tr_pc' = "batch_write" /\ UNCHANGED tr_result
              ELSE TrReturns("error")
    /\ UNCHANGED <<tr_impl, tr_files, tr_known>>
    /\ UNCHANGED exceptTranscribe

\* worker, lines 85-88: the temporary directory is made and the audio written
\* into it.  webhook, lines 125-127: the temporary file is made, the audio is
\* written, and only then is its name kept in temp_audio_file.  A failing
\* write raises inside the try: the error string is returned after the block
\* is left.
TrBatchWrite(ok) ==
    /\ tr_pc = "batch_write"
    /\ tr_path' = Append(tr_path, IF ok THEN "written" ELSE "write_raised")
    /\ LET made == IF tr_impl = "worker"
                     THEN tr_files \cup {TempDir, InputFile(tr_impl)}
                     ELSE tr_files \cup {InputFile(tr_impl)}
       IN IF ok
            THEN /\ tr_files' = made
                 /\ tr_known' = IF tr_impl = "worker" THEN {TempDir} ELSE {InputFile(tr_impl)}
                 /\ tr_pc' = "batch_job"
                 /\ UNCHANGED tr_result
            ELSE /\ tr_files' = LeaveBatch(tr_impl, made, tr_known)
                 /\ UNCHANGED tr_known
                 /\ TrReturns("error")
    /\ UNCHANGED tr_impl
    /\ UNCHANGED exceptTranscribe

\* worker, lines 90-105; webhook, lines 132-163: create the job, upload, start,
\* wait, look at the per-file results.
JobOutcomes == {"successful", "failed", "job_raised"}
TrBatchJob(outcome) ==
    /\ tr_pc = "batch_job"
    /\ tr_path' = Append(tr_path, outcome)
    /\ IF outcome = "successful"
         THEN /\ tr_pc' = "batch_download"
              /\ UNCHANGED <<tr_files, tr_result>>
         ELSE /\ tr_files' = LeaveBatch(tr_impl, tr_files, tr_known)
              /\ TrReturns("error")
    /\ UNCHANGED <<tr_impl, tr_known>>
    /\ UNCHANGED exceptTranscribe

\* worker, lines 108-114; webhook, lines 166-177: make the output directory,
\* download the outputs, look for a JSON file.
DownloadOutcomes == {"json", "nofile", "download_raised"}
TrBatchDownload(outcome) ==
    /\ tr_pc = "batch_download"
    /\ tr_path' = Append(tr_path, outcome)
    /\ LET made == tr_files \cup {OutputDir(tr_impl)}
           known == IF tr_impl = "worker" THEN tr_known ELSE tr_known \cup {OutputDir(tr_impl)}
       IN /\ tr_known' = known
          /\ IF outcome = "json"
               THEN /\ tr_files' = made
                    /\ tr_pc' = "batch_parse"
                    /\ UNCHANGED tr_result
               ELSE /\ tr_files' = LeaveBatch(tr_impl, made, known)
                    /\ TrReturns("error")
    /\ UNCHANGED tr_impl
    /\ UNCHANGED exceptTranscribe

\* worker, lines 116-117: the transcript or text field, or "".  webhook, lines
\* 180-195: a result without either field is an error.
ParseOutcomes == {"transcript", "empty", "parse_raised"}
TrBatchParse(outcome) ==
    /\ tr_pc = "batch_parse"
    /\ tr_path' = Append(tr_path, outcome)
    /\ tr_files' = LeaveBatch(tr_impl, tr_files, tr_known)
    /\ IF outcome = "transcript" THEN TrReturns("transcript")
       ELSE IF outcome = "empty" /\ tr_impl = "worker" THEN TrReturns("empty")
       ELSE TrReturns("error")
    /\ UNCHANGED <<tr_impl, tr_known>>
    /\ UNCHANGED exceptTranscribe

\* The caller has the result; the next audio message may come.  What is on
\* disk stays on disk.
TrDone ==
    /\ tr_pc = "done"
    /\ tr_pc' = "idle"
    /\ tr_impl' = "none"
    /\ tr_known' = {}
    /\ tr_path' = <<>>
    /\ tr_result' = NoResult
    /\ UNCHANGED tr_files
    /\ UNCHANGED exceptTranscribe

NextTranscribe ==
    \/ \E impl \in Implementations : \E api_key \in BOOLEAN : TrCall(impl, api_key)
    \/ \E outcome \in RestOutcomes : TrRest(outcome)
    \/ \E ok \in BOOLEAN : TrBatchWrite(ok)
    \/ \E outcome \in JobOutcomes : TrBatchJob(outcome)
    \/ \E outcome \in DownloadOutcomes : TrBatchDownload(outcome)
    \/ \E outcome \in ParseOutcomes : TrBatchParse(outcome)
    \/ TrDone

(***************************************************************************)
(* Specifications                                                          *)
(***************************************************************************)
(***************************************************************************)
(* AUTHENTICATION                                                          *)
(* server/routes/auth.py logout and server/dependencies.py                 *)
(* get_current_user, the dependency of every protected endpoint.           *)
(***************************************************************************)

MaxAuthRequests == 3

\* A bearer token is modelled by what jwt.decode and the user lookup make of
\* it: two tokens issued by login for existing users, a token past its exp,
\* a token whose signature does not verify, a token without sub, a token
\* whose sub is not an integer, a token of a deleted user and a token whose
\* org_id is not the user's.
IssuedTokens == {"token1", "token2"}
Tokens == IssuedTokens \cup {"expired", "garbage", "no_sub", "bad_sub",
                             "no_user", "wrong_org"}

\* config.SECRET_KEY of the deployment that issued the tokens.
SECRET_KEY == TRUE

UserReturned == [status |-> 200, detail |-> ""]
Rejected(status, detail) == [status |-> status, detail |-> detail]

\* get_current_user: the answer of the dependency, UserReturned when it
\* returns the user.  It decodes the token and looks the user up; it reads
\* no other table.
get_current_user(token) ==
    IF ~SECRET_KEY
    THEN Rejected(500, "Server misconfiguration: SECRET_KEY not set")
    ELSE CASE token = "expired" -> Rejected(401, "Token has expired")
           [] token = "garbage" -> Rejected(401, "Invalid token")
           [] token = "no_sub" -> Rejected(401, "Invalid token: subject missing")
           [] token = "bad_sub" ->
                Rejected(401, "Invalid token: subject is not an integer id")
           [] token = "no_user" -> Rejected(401, "User not found")
           [] token = "wrong_org" -> Rejected(401, "Token organization mismatch")
           [] OTHER -> UserReturned

Answer(endpoint, token, resp) ==
    [endpoint |-> endpoint, token |-> token,
     status |-> resp.status, detail |-> resp.detail]

AuthInit ==
    /\ blacklist = [token \in Tokens |-> 0]
    /\ auth_log = <<>>

\* POST /auth/logout.  The dependency runs first; then a TokenBlacklist row
\* for the token is added and committed.  The commit can fail (the table's
\* constraints are not part of the sources, and the database can be down),
\* which leaves the handler as an unhandled exception, a 500.
Logout(token, committed) ==
    /\ Len(auth_log) < MaxAuthRequests
    /\ LET user == get_current_user(token)
       IN IF user # UserReturned
          THEN /\ auth_log' = Append(auth_log, Answer("logout", token, user))
               /\ UNCHANGED blacklist
          ELSE IF committed
            THEN /\ blacklist' = [blacklist EXCEPT ![token] = @ + 1]
                 /\ auth_log' = Append(auth_log,
                        Answer("logout", token,
                               Rejected(200, "Logged out successfully")))
            ELSE /\ UNCHANGED blacklist
                 /\ auth_log' = Append(auth_log,
                        Answer("logout", token,
                               Rejected(500, "Internal Server Error")))
    /\ UNCHANGED exceptAuth

\* Any other endpoint that depends on get_current_user: it answers what the
\* dependency answers, 200 when the user is returned.
Protected(token) ==
    /\ Len(auth_log) < MaxAuthRequests
    /\ auth_log' = Append(auth_log,
                          Answer("protected", token, get_current_user(token)))
    /\ UNCHANGED blacklist
    /\ UNCHANGED exceptAuth

NextAuth ==
    \/ \E token \in Tokens : \E committed \in BOOLEAN : Logout(token, committed)
    \/ \E token \in Tokens : Protected(token)

(***************************************************************************)
(* SCHEDULER JOBS, STEP BY STEP                                            *)
(* whatsapp_worker/scheduler.py check_deadlines and send_daily_reports     *)
(* with every request and every transmission as a step of its own.         *)
(***************************************************************************)

\* Minutes until the deadline of a fetched task, on and around the limits.
MinutesUntil == {-5, 0, 5, 10, 30, 60, 90}

\* The assignees of a fetched task, in order; "" is an assignee without a
\* phone number.
AssigneeLists == {<<"p1">>, <<"p1", "p2">>, <<"", "p2">>}

\* The entries of the tasks-with-deadlines answer.  Task 1 comes with every
\* deadline and assignee list, without a deadline, with a deadline that does
\* not parse and without assignees; task 2 is the other task of a sweep.
FetchedTasks1 ==
    {[id |-> 1, deadline |-> "ok", minutes |-> m, assignees |-> a] :
        m \in MinutesUntil, a \in AssigneeLists}
    \cup {[id |-> 1, deadline |-> d, minutes |-> 5, assignees |-> <<"p1">>] :
        d \in {"missing", "unparsable"}}
    \cup {[id |-> 1, deadline |-> "ok", minutes |-> 5, assignees |-> <<>>]}
FetchedTasks2 ==
    {[id |-> 2, deadline |-> "ok", minutes |-> 5, assignees |-> <<"p1">>]}
FetchedLists ==
    {<<>>} \cup {<<t>> : t \in FetchedTasks1 \cup FetchedTasks2}
           \cup {<<t1, t2>> : t1 \in FetchedTasks1, t2 \in FetchedTasks2}

\* The entries of the users-for-daily-reports answer: user 1 with or without
\* a phone and with or without can_assign, user 2 a manager.
ReportUsers1 ==
    {[id |-> 1, phone |-> p, can_assign |-> c] : p \in {"p1", ""}, c \in BOOLEAN}
ReportUsers2 == {[id |-> 2, phone |-> "p2", can_assign |-> TRUE]}
ReportLists ==
    {<<>>} \cup {<<u>> : u \in ReportUsers1 \cup ReportUsers2}
           \cup {<<u1, u2>> : u1 \in ReportUsers1, u2 \in ReportUsers2}

\* What a transmission does: it returns status 200, returns an error status,
\* or raises.
SendOutcomes == {"200", "500", "raised"}

\* What _get_personal_report_data and _get_assigned_report_data return: the
\* report, a body with an 'error' key, or {} when the request failed; an
\* assigned report comes with or without assigned_tasks.
PersonalData == {"data", "error", "empty"}
AssignedData == {"tasks", "no_tasks", "error", "empty"}

NoJobTask == [id |-> 0, minutes |-> 0, type |-> "none"]

JobInit ==
    /\ job = "none"
    /\ job_pc = "idle"
    /\ job_fetch = "none"
    /\ job_tasks = <<>>
    /\ job_users = <<>>
    /\ job_cur = NoJobTask
    /\ job_todo = <<>>
    /\ job_active = {}
    /\ job_data = "none"
    /\ job_log = <<>>

FetchList_IgnoreFailure(ok, list) == list

\* _get_tasks_with_deadlines and _get_users_for_daily_reports: the answer of
\* the request, the empty list when the request failed.
FetchList(ok, list) == IF ok THEN list ELSE <<>>

Transmission(kind, id, minutes, type, phone, outcome) ==
    [job |-> kind, id |-> id, minutes |-> minutes, type |-> type,
     phone |-> phone, outcome |-> outcome]

\* check_deadlines, lines 80-90: the request; an empty answer ends the run.
DeadlinesFetch(ok, list) ==
    /\ job_pc = "idle"
    /\ job' = "deadlines"
    /\ job_fetch' = IF ok THEN "ok" ELSE "failed"
    /\ job_tasks' = FetchList(ok, list)
    /\ job_pc' = IF FetchList(ok, list) = <<>> THEN "idle" ELSE "task"
    /\ job_users' = <<>>
    /\ job_cur' = NoJobTask
    /\ job_todo' = <<>>
    /\ job_active' = {}
    /\ job_data' = "none"
    /\ job_log' = <<>>
    /\ UNCHANGED sent_reminders
    /\ UNCHANGED exceptJobs

Selected_Exclusive(sr, task_id, minutes_until) ==
    LET r == IF minutes_until < 0 THEN "overdue"
             ELSE IF minutes_until < REMINDER_10_MIN THEN "10min"
             ELSE IF minutes_until < REMINDER_60_MIN THEN "60min"
             ELSE "none"
    IN IF r # "none" /\ _should_send_reminder(sr, task_id, r) THEN r ELSE "none"

\* check_deadlines, lines 123-143: reminder_type, "none" when no branch
\* applies or the branch finds its type already sent.
Selected(sr, task_id, minutes_until) ==
    LET r == TierOf(minutes_until)
    IN IF r # "none" /\ _should_send_reminder(sr, task_id, r) THEN r ELSE "none"

\* check_deadlines, lines 92-146: the head of one pass of the task loop, up
\* to the choice of the reminder type.
DeadlinesTask ==
    /\ job_pc = "task"
    /\ job_tasks # <<>>
    /\ LET task == Head(job_tasks)
           skipped == task.deadline = "missing" \/ task.assignees = <<>>
           type == IF skipped \/ task.deadline = "unparsable" THEN "none"
                   ELSE Selected(sent_reminders, task.id, task.minutes)
       IN /\ job_active' = IF skipped THEN job_active ELSE job_active \cup {task.id}
          /\ IF type = "none"
               THEN /\ job_tasks' = Tail(job_tasks)
                    /\ UNCHANGED <<job_pc, job_cur, job_todo>>
               ELSE /\ job_pc' = "send"
                    /\ job_cur' = [id |-> task.id, minutes |-> task.minutes,
                                   type |-> type]
                    /\ job_todo' = task.assignees
                    /\ UNCHANGED job_tasks
    /\ UNCHANGED <<job, job_fetch, job_users, job_data, job_log, sent_reminders>>
    /\ UNCHANGED exceptJobs

DeadlinesSend_AbortOnRaise(outcome) ==
    /\ job_pc = "send"
    /\ job_todo # <<>>
    /\ LET phone == Head(job_todo)
       IN job_log' = IF phone = "" THEN job_log
                     ELSE Append(job_log,
                                 Transmission("deadlines", job_cur.id, job_cur.minutes,
                                              job_cur.type, phone, outcome))
    /\ IF outcome = "raised" /\ Head(job_todo) # ""
         THEN job_pc' = "idle" /\ UNCHANGED job_todo
         ELSE job_todo' = Tail(job_todo) /\ UNCHANGED job_pc
    /\ UNCHANGED <<job, job_fetch, job_tasks, job_users, job_cur, job_active,
                   job_data, sent_reminders>>
    /\ UNCHANGED exceptJobs

\* check_deadlines, lines 147-157: one pass of the assignee loop.  An error
\* status and an exception of the notification function are logged.
DeadlinesSend(outcome) ==
    /\ job_pc = "send"
    /\ job_todo # <<>>
    /\ LET phone == Head(job_todo)
       IN job_log' = IF phone = "" THEN job_log
                     ELSE Append(job_log,
                                 Transmission("deadlines", job_cur.id, job_cur.minutes,
                                              job_cur.type, phone, outcome))
    /\ job_todo' = Tail(job_todo)
    /\ UNCHANGED <<job, job_pc, job_fetch, job_tasks, job_users, job_cur, job_active,
                   job_data, sent_reminders>>
    /\ UNCHANGED exceptJobs

\* check_deadlines, line 159: after the assignee loop the type is marked.
DeadlinesMark ==
    /\ job_pc = "send"
    /\ job_todo = <<>>
    /\ sent_reminders' = _mark_reminder_sent(sent_reminders, job_cur.id, job_cur.type)
    /\ job_tasks' = Tail(job_tasks)
    /\ job_cur' = NoJobTask
    /\ job_pc' = "task"
    /\ UNCHANGED <<job, job_fetch, job_users, job_todo, job_active, job_data, job_log>>
    /\ UNCHANGED exceptJobs

\* check_deadlines, lines 161-164: after the task loop.
DeadlinesCleanup ==
    /\ job_pc = "task"
    /\ job_tasks = <<>>
    /\ sent_reminders' = _cleanup_completed_tasks(sent_reminders, job_active)
    /\ job_pc' = "idle"
    /\ UNCHANGED <<job, job_fetch, job_tasks, job_users, job_cur, job_todo, job_active,
                   job_data, job_log>>
    /\ UNCHANGED exceptJobs

\* send_daily_reports, lines 254-262: the request; an empty answer ends the
\* run.
ReportsFetch(ok, list) ==
    /\ job_pc = "idle"
    /\ job' = "reports"
    /\ job_fetch' = IF ok THEN "ok" ELSE "failed"
    /\ job_users' = FetchList(ok, list)
    /\ job_pc' = IF FetchList(ok, list) = <<>> THEN "idle" ELSE "personal"
    /\ job_tasks' = <<>>
    /\ job_cur' = NoJobTask
    /\ job_todo' = <<>>
    /\ job_active' = {}
    /\ job_data' = "none"
    /\ job_log' = <<>>
    /\ UNCHANGED sent_reminders
    /\ UNCHANGED exceptJobs

\* send_daily_reports, lines 264-286: a user without a phone is passed over;
\* the personal report is sent when its data came without an 'error' key.
ReportPersonal(data, outcome) ==
    /\ job_pc = "personal"
    /\ job_users # <<>>
    /\ LET user == Head(job_users)
       IN IF user.phone = ""
            THEN /\ job_users' = Tail(job_users)
                 /\ UNCHANGED <<job_pc, job_data, job_log>>
            ELSE /\ job_pc' = "assigned"
                 /\ job_data' = data
                 /\ job_log' = IF data = "data"
                                 THEN Append(job_log,
                                        Transmission("reports", user.id, 0, "personal",
                                                     user.phone, outcome))
                                 ELSE job_log
                 /\ UNCHANGED job_users
    /\ UNCHANGED <<job, job_fetch, job_tasks, job_cur, job_todo, job_active,
                   sent_reminders>>
    /\ UNCHANGED exceptJobs

ReportAssigned_NoEmptyCheck(data, outcome) ==
    /\ job_pc = "assigned"
    /\ LET user == Head(job_users)
       IN /\ job_data' = IF user.can_assign THEN data ELSE "none"
          /\ job_log' = IF user.can_assign /\ data \in {"tasks", "no_tasks"}
                          THEN Append(job_log,
                                 Transmission("reports", user.id, 0, "assigned",
                                              user.phone, outcome))
                          ELSE job_log
    /\ job_users' = Tail(job_users)
    /\ job_pc' = "personal"
    /\ UNCHANGED <<job, job_fetch, job_tasks, job_cur, job_todo, job_active,
                   sent_reminders>>
    /\ UNCHANGED exceptJobs

\* send_daily_reports, lines 288-304: only for a user with can_assign the
\* assigned data is fetched, and the report is sent when the data came
\* without an 'error' key and with assigned_tasks.
ReportAssigned(data, outcome) ==
    /\ job_pc = "assigned"
    /\ LET user == Head(job_users)
       IN /\ job_data' = IF user.can_assign THEN data ELSE "none"
          /\ job_log' = IF user.can_assign /\ data = "tasks"
                          THEN Append(job_log,
                                 Transmission("reports", user.id, 0, "assigned",
                                              user.phone, outcome))
                          ELSE job_log
    /\ job_users' = Tail(job_users)
    /\ job_pc' = "personal"
    /\ UNCHANGED <<job, job_fetch, job_tasks, job_cur, job_todo, job_active,
                   sent_reminders>>
    /\ UNCHANGED exceptJobs

\* send_daily_reports, line 306: after the user loop.
ReportsDone ==
    /\ job_pc = "personal"
    /\ job_users = <<>>
    /\ job_pc' = "idle"
    /\ UNCHANGED <<job, job_fetch, job_tasks, job_users, job_cur, job_todo, job_active,
                   job_data, job_log, sent_reminders>>
    /\ UNCHANGED exceptJobs

NextJobs ==
    \/ job_pc = "idle" /\ \E ok \in BOOLEAN : \E list \in FetchedLists :
          DeadlinesFetch(ok, list)
    \/ DeadlinesTask
    \/ \E outcome \in SendOutcomes : DeadlinesSend(outcome)
    \/ DeadlinesMark
    \/ DeadlinesCleanup
    \/ job_pc = "idle" /\ \E ok \in BOOLEAN : \E list \in ReportLists :
          ReportsFetch(ok, list)
    \/ \E data \in PersonalData : \E outcome \in SendOutcomes :
          ReportPersonal(data, outcome)
    \/ \E data \in AssignedData : \E outcome \in SendOutcomes :
          ReportAssigned(data, outcome)
    \/ ReportsDone

(***************************************************************************)
(* TASK ENDPOINTS: server/routes/tasks.py on one task of the requester's   *)
(* organisation, one request after the other.                              *)
(***************************************************************************)

MaxChecklist == 2

\* TaskStatus values; on_hold and overdue are handled like in_progress.
TaskStatus == {"assigned", "in_progress", "completed", "cancelled"}

\* Who sends the request: a manager, and an employee who may or may not be
\* an assignee of the task.  User 9 is not in the organisation.
Requesters == {[id |-> 1, role |-> "manager"], [id |-> 2, role |-> "employee"]}
OrgUsers == {1, 2}
UserIds == {1, 2, 9}
UserIdLists == {<<2>>, <<1, 2>>, <<9, 1>>}

\* TaskUpdate with exclude_unset: the fields the request sets.
UpdateData == [status : TaskStatus \cup {"unset"}, title : {"t1", "t2", "unset"}]
Reasons == {"r1", "r2"}
\* A checklist item is its completed flag; the flag of a ChecklistUpdate can
\* be left out.
ItemFlags == {"open", "done"}
Indexes == 0..MaxChecklist

\* server/permissions.py
can_update_any_task(role) == role \in {"owner", "manager"}
can_update_assigned_task(uid, assignees, role) ==
    can_update_any_task(role) \/ uid \in assignees
can_delete_task(role) == role \in {"owner", "manager"}
can_assign_task(role) == role \in {"owner", "manager"}

TaskInit ==
    /\ task_row = [status |-> "assigned", title |-> "t1",
                   cancellation_reason |-> "none", checklist |-> <<>>]
    /\ task_assignees = {}
    /\ task_reply = [op |-> "none", code |-> 0, notified |-> {}]

\* The answer of a request; notified are the users a WhatsApp notification
\* was sent to.
Reply(op, code, sent_to) == [op |-> op, code |-> code, notified |-> sent_to]
Rejects(op, code) ==
    /\ task_reply' = Reply(op, code, {})
    /\ UNCHANGED <<task_row, task_assignees>>

\* PUT /tasks/{task_id}
update_task(requester, update_data) ==
    /\ IF task_row.status = "cancelled" THEN Rejects("update_task", 403)
       ELSE IF ~can_update_assigned_task(requester.id, task_assignees, requester.role)
         THEN Rejects("update_task", 403)
       ELSE LET status == IF update_data.status = "unset" THEN task_row.status
                          ELSE update_data.status
                title == IF update_data.title = "unset" THEN task_row.title
                         ELSE update_data.title
                changes_detected == status # task_row.status \/ title # task_row.title
                unset == update_data.status = "unset" /\ update_data.title = "unset"
            IN IF ~changes_detected /\ ~unset
                 THEN /\ task_reply' = Reply("update_task", 200, {})
                      /\ UNCHANGED <<task_row, task_assignees>>
                 ELSE /\ task_row' = [task_row EXCEPT !.status = status, !.title = title]
                      /\ task_reply' = Reply("update_task", 200, task_assignees)
                      /\ UNCHANGED task_assignees
    /\ UNCHANGED exceptTasks

\* POST /tasks/{task_id}/cancel
cancel_task(requester, reason) ==
    /\ IF ~can_delete_task(requester.role) THEN Rejects("cancel_task", 403)
       ELSE IF task_row.status = "cancelled"
         THEN /\ task_reply' = Reply("cancel_task", 200, {})
              /\ UNCHANGED <<task_row, task_assignees>>
       ELSE /\ task_row' = [task_row EXCEPT !.status = "cancelled",
                                            !.cancellation_reason = reason]
            /\ task_reply' = Reply("cancel_task", 200, task_assignees)
            /\ UNCHANGED task_assignees
    /\ UNCHANGED exceptTasks

\* POST /tasks/{task_id}/assign
assign_task(requester, uid) ==
    /\ IF ~can_assign_task(requester.role) THEN Rejects("assign_task", 403)
       ELSE IF task_row.status = "cancelled" THEN Rejects("assign_task", 403)
       ELSE IF uid \notin OrgUsers THEN Rejects("assign_task", 404)
       ELSE IF uid \in task_assignees
         THEN /\ task_reply' = Reply("assign_task", 200, {})
              /\ UNCHANGED <<task_row, task_assignees>>
       ELSE /\ task_assignees' = task_assignees \cup {uid}
            /\ task_reply' = Reply("assign_task", 200, {uid})
            /\ UNCHANGED task_row
    /\ UNCHANGED exceptTasks

\* POST /tasks/{task_id}/assign-multiple
assign_task_multiple(requester, user_ids) ==
    /\ IF ~can_assign_task(requester.role) THEN Rejects("assign_task_multiple", 403)
       ELSE IF task_row.status = "cancelled" THEN Rejects("assign_task_multiple", 403)
       ELSE LET added == ({user_ids[i] : i \in 1..Len(user_ids)} \cap OrgUsers)
                            \ task_assignees
            IN /\ task_assignees' = task_assignees \cup added
               /\ task_reply' = Reply("assign_task_multiple", 200, added)
               /\ UNCHANGED task_row
    /\ UNCHANGED exceptTasks

\* POST /tasks/{task_id}/unassign
unassign_task(requester, uid) ==
    /\ IF ~can_assign_task(requester.role) THEN Rejects("unassign_task", 403)
       ELSE IF task_row.status = "cancelled" THEN Rejects("unassign_task", 403)
       ELSE IF uid \notin task_assignees THEN Rejects("unassign_task", 404)
       ELSE /\ task_assignees' = task_assignees \ {uid}
            /\ task_reply' = Reply("unassign_task", 200, {})
            /\ UNCHANGED task_row
    /\ UNCHANGED exceptTasks

\* POST /tasks/{task_id}/checklist/add
add_checklist_item(requester, completed) ==
    /\ Len(task_row.checklist) < MaxChecklist \/ task_row.status = "cancelled"
    /\ IF task_row.status = "cancelled" THEN Rejects("add_checklist_item", 403)
       ELSE IF ~can_update_assigned_task(requester.id, task_assignees, requester.role)
         THEN Rejects("add_checklist_item", 403)
       ELSE /\ task_row' = [task_row EXCEPT !.checklist = Append(@, completed)]
            /\ task_reply' = Reply("add_checklist_item", 200, {})
            /\ UNCHANGED task_assignees
    /\ UNCHANGED exceptTasks

\* PUT /tasks/{task_id}/checklist/update; index counts from 0.
update_checklist_item(requester, index, completed) ==
    /\ IF task_row.status = "cancelled" THEN Rejects("update_checklist_item", 403)
       ELSE IF ~can_update_assigned_task(requester.id, task_assignees, requester.role)
         THEN Rejects("update_checklist_item", 403)
       ELSE IF index >= Len(task_row.checklist)
         THEN Rejects("update_checklist_item", 400)
       ELSE /\ task_row' = [task_row EXCEPT !.checklist[index + 1] =
                               IF completed = "unset" THEN @ ELSE completed]
            /\ task_reply' = Reply("update_checklist_item", 200, {})
            /\ UNCHANGED task_assignees
    /\ UNCHANGED exceptTasks

remove_checklist_item_NoCancelCheck(requester, index) ==
    /\ IF ~can_update_assigned_task(requester.id, task_assignees, requester.role)
         THEN Rejects("remove_checklist_item", 403)
       ELSE IF index >= Len(task_row.checklist)
         THEN Rejects("remove_checklist_item", 400)
       ELSE /\ task_row' = [task_row EXCEPT !.checklist =
                               SubSeq(@, 1, index) \o SubSeq(@, index + 2, Len(@))]
            /\ task_reply' = Reply("remove_checklist_item", 200, {})
            /\ UNCHANGED task_assignees
    /\ UNCHANGED exceptTasks

\* DELETE /tasks/{task_id}/checklist/remove
remove_checklist_item(requester, index) ==
    /\ IF task_row.status = "cancelled" THEN Rejects("remove_checklist_item", 403)
       ELSE IF ~can_update_assigned_task(requester.id, task_assignees, requester.role)
         THEN Rejects("remove_checklist_item", 403)
       ELSE IF index >= Len(task_row.checklist)
         THEN Rejects("remove_checklist_item", 400)
       ELSE /\ task_row' = [task_row EXCEPT !.checklist =
                               SubSeq(@, 1, index) \o SubSeq(@, index + 2, Len(@))]
            /\ task_reply' = Reply("remove_checklist_item", 200, {})
            /\ UNCHANGED task_assignees
    /\ UNCHANGED exceptTasks

NextTasks ==
    \/ \E requester \in Requesters : \E update_data \in UpdateData :
          update_task(requester, update_data)
    \/ \E requester \in Requesters : \E reason \in Reasons :
          cancel_task(requester, reason)
    \/ \E requester \in Requesters : \E uid \in UserIds :
          assign_task(requester, uid)
    \/ \E requester \in Requesters : \E user_ids \in UserIdLists :
          assign_task_multiple(requester, user_ids)
    \/ \E requester \in Requesters : \E uid \in UserIds :
          unassign_task(requester, uid)
    \/ \E requester \in Requesters : \E completed \in ItemFlags :
          add_checklist_item(requester, completed)
    \/ \E requester \in Requesters : \E index \in Indexes :
          \E completed \in ItemFlags \cup {"unset"} :
             update_checklist_item(requester, index, completed)
    \/ \E requester \in Requesters : \E index \in Indexes :
          remove_checklist_item(requester, index)

(***************************************************************************)
(* JOB EXECUTOR: whatsapp_worker/scheduler.py start_scheduler.  The two    *)
(* jobs are added to a BackgroundScheduler without max_instances, so the   *)
(* scheduler's default of one running instance per job applies.            *)
(***************************************************************************)

MaxFires == 4

JobIds == {"deadline_reminder_job", "daily_reports_job"}

\* add_job without max_instances: the scheduler's job default.
max_instances == 1

\* The phases of a running instance, in order.
PhasesOf(j) ==
    IF j = "deadline_reminder_job" THEN <<"fetch", "sweep", "cleanup">>
    ELSE <<"fetch", "users">>

ExecInit ==
    /\ ex_runs = [j \in JobIds |-> <<>>]
    /\ ex_fires = 0
    /\ ex_last = [job |-> "none", started |-> FALSE]

Fire_NoInstanceLimit(j) ==
    /\ ex_fires < MaxFires
    /\ ex_fires' = ex_fires + 1
    /\ ex_runs' = [ex_runs EXCEPT ![j] = Append(@, PhasesOf(j)[1])]
    /\ ex_last' = [job |-> j, started |-> TRUE]
    /\ UNCHANGED exceptExec

\* The trigger of job j fires (the interval has passed, or it is the report
\* time): the job function is submitted to the thread pool unless
\* max_instances instances of the job are still running; then the run is
\* skipped with a warning.
Fire(j) ==
    /\ ex_fires < MaxFires
    /\ ex_fires' = ex_fires + 1
    /\ IF Len(ex_runs[j]) < max_instances
         THEN /\ ex_runs' = [ex_runs EXCEPT ![j] = Append(@, PhasesOf(j)[1])]
              /\ ex_last' = [job |-> j, started |-> TRUE]
         ELSE /\ UNCHANGED ex_runs
              /\ ex_last' = [job |-> j, started |-> FALSE]
    /\ UNCHANGED exceptExec

PhaseIndex(j, phase) == CHOOSE k \in 1..Len(PhasesOf(j)) : PhasesOf(j)[k] = phase

\* The i-th running instance of job j goes on to its next phase.
Advance(j, i) ==
    /\ i \in 1..Len(ex_runs[j])
    /\ PhaseIndex(j, ex_runs[j][i]) < Len(PhasesOf(j))
    /\ ex_runs' = [ex_runs EXCEPT ![j][i] = PhasesOf(j)[PhaseIndex(j, @) + 1]]
    /\ UNCHANGED <<ex_fires, ex_last>>
    /\ UNCHANGED exceptExec

\* The i-th running instance of job j returns: after its last phase, or from
\* its first one when the fetched list is empty.
Finish(j, i) ==
    /\ i \in 1..Len(ex_runs[j])
    /\ ex_runs[j][i] \in {PhasesOf(j)[1], PhasesOf(j)[Len(PhasesOf(j))]}
    /\ ex_runs' = [ex_runs EXCEPT ![j] =
                      SubSeq(@, 1, i - 1) \o SubSeq(@, i + 1, Len(@))]
    /\ UNCHANGED <<ex_fires, ex_last>>
    /\ UNCHANGED exceptExec

NextExec ==
    \/ \E j \in JobIds : Fire(j)
    \/ \E j \in JobIds : \E i \in 1..MaxFires : Advance(j, i)
    \/ \E j \in JobIds : \E i \in 1..MaxFires : Finish(j, i)

(***************************************************************************)
(* WORKER LOOP: whatsapp_worker/main.py start_worker, with handle_webhook  *)
(* as one step that returns a status.                                      *)
(***************************************************************************)

MaxPolls == 4

\* Two queue messages: the body of "json" parses, the body of "text" is not
\* JSON.
LoopMsgs == {"json", "text"}
NoLoopMsg == "none"

LoopInit ==
    /\ loop_pc = "receive"
    /\ sqs = [m \in LoopMsgs |-> "absent"]
    /\ loop_msg = NoLoopMsg
    /\ polls = 0
    /\ deliveries = [m \in LoopMsgs |-> 0]

\* The ingress puts a message on the queue.
LoopArrive(m) ==
    /\ sqs[m] = "absent"
    /\ sqs' = [sqs EXCEPT ![m] = "visible"]
    /\ UNCHANGED <<loop_pc, loop_msg, polls, deliveries>>
    /\ UNCHANGED exceptLoop

\* VisibilityTimeout=30: a received message that was not deleted becomes
\* visible again, also while the worker is still busy with it.
LoopTimeout(m) ==
    /\ sqs[m] = "inflight"
    /\ sqs' = [sqs EXCEPT ![m] = "visible"]
    /\ UNCHANGED <<loop_pc, loop_msg, polls, deliveries>>
    /\ UNCHANGED exceptLoop

\* Lines 30-40: receive_message.  It raises, returns no message (continue),
\* or returns one visible message.
LoopReceive(raises) ==
    /\ loop_pc = "receive"
    /\ polls < MaxPolls
    /\ polls' = polls + 1
    /\ IF raises
         THEN /\ loop_pc' = "sleep"
              /\ UNCHANGED <<sqs, loop_msg, deliveries>>
         ELSE IF \A m \in LoopMsgs : sqs[m] # "visible"
           THEN UNCHANGED <<loop_pc, sqs, loop_msg, deliveries>>
         ELSE \E m \in LoopMsgs :
                /\ sqs[m] = "visible"
                /\ sqs' = [sqs EXCEPT ![m] = "inflight"]
                /\ deliveries' = [deliveries EXCEPT ![m] = @ + 1]
                /\ loop_msg' = m
                /\ loop_pc' = "parse"
    /\ UNCHANGED exceptLoop

\* Lines 42-46: json.loads of the body; a body that is not JSON raises.
LoopParse ==
    /\ loop_pc = "parse"
    /\ IF loop_msg = "text"
         THEN loop_pc' = "sleep" /\ loop_msg' = NoLoopMsg
         ELSE loop_pc' = "handle" /\ UNCHANGED loop_msg
    /\ UNCHANGED <<sqs, polls, deliveries>>
    /\ UNCHANGED exceptLoop

\* Lines 48-58: handle_webhook returns a status (its own except turns every
\* exception into 500); 200 goes on to delete_message, anything else is
\* logged and the loop polls again.
LoopHandle(status) ==
    /\ loop_pc = "handle"
    /\ IF status = 200
         THEN loop_pc' = "delete" /\ UNCHANGED loop_msg
         ELSE loop_pc' = "receive" /\ loop_msg' = NoLoopMsg
    /\ UNCHANGED <<sqs, polls, deliveries>>
    /\ UNCHANGED exceptLoop

\* Lines 52-56: delete_message; when it raises the message stays.
LoopDelete(ok) ==
    /\ loop_pc = "delete"
    /\ IF ok
         THEN sqs' = [sqs EXCEPT ![loop_msg] = "deleted"] /\ loop_pc' = "receive"
         ELSE UNCHANGED sqs /\ loop_pc' = "sleep"
    /\ loop_msg' = NoLoopMsg
    /\ UNCHANGED <<polls, deliveries>>
    /\ UNCHANGED exceptLoop

LoopSleep_Exit ==
    /\ loop_pc = "sleep"
    /\ loop_pc' = "exited"
    /\ UNCHANGED <<sqs, loop_msg, polls, deliveries>>
    /\ UNCHANGED exceptLoop

\* Lines 60-62: the except of the loop logs, sleeps 5 seconds, and the while
\* loop goes on.
LoopSleep ==
    /\ loop_pc = "sleep"
    /\ loop_pc' = "receive"
    /\ UNCHANGED <<sqs, loop_msg, polls, deliveries>>
    /\ UNCHANGED exceptLoop

\* The steps of the worker itself.
LoopStep ==
    \/ \E raises \in BOOLEAN : LoopReceive(raises)
    \/ LoopParse
    \/ \E status \in {200, 500} : LoopHandle(status)
    \/ \E ok \in BOOLEAN : LoopDelete(ok)
    \/ LoopSleep

NextLoop ==
    \/ \E m \in LoopMsgs : LoopArrive(m)
    \/ \E m \in LoopMsgs : LoopTimeout(m)
    \/ LoopStep

Init ==
    /\ WorkerInit /\ LLMInit /\ SchedInit /\ IngressInit /\ ToolInit /\ TrInit
    /\ AuthInit
    /\ JobInit
    /\ TaskInit
    /\ ExecInit
    /\ LoopInit

Spec == Init /\ [][Next]_vars
SpecLLM == Init /\ [][NextLLM]_vars
SpecSched == Init /\ [][NextSched]_vars
SpecIngress == Init /\ [][NextIngress]_vars
SpecTools == Init /\ [][NextTools]_vars
SpecTranscribe == Init /\ [][NextTranscribe]_vars
SpecAuth == Init /\ [][NextAuth]_vars
SpecJobs == Init /\ [][NextJobs]_vars
SpecTasks == Init /\ [][NextTasks]_vars
SpecExec == Init /\ [][NextExec]_vars

\* The worker loop with its scheduling: the loop itself keeps running, and
\* the queue's visibility timer runs out for every message in flight.
SpecLoopFair ==
    /\ Init /\ [][NextLoop]_vars
    /\ WF_vars(LoopStep)
    /\ \A m \in LoopMsgs : WF_vars(LoopTimeout(m))

(***************************************************************************)
(* Properties of the worker (Spec)                                         *)
(***************************************************************************)
Sum2(f, a, b) == f[a] + f[b]
InboundTurns(m) == Sum2(messages, Turn("in", m, NoUser), Turn("in", m, KnownUser))
QueueTotal == LET S == {p \in Payloads : InQueue(p) > 0}
                  RECURSIVE Total(_)
                  Total(T) == IF T = {} THEN 0
                              ELSE LET p == CHOOSE x \in T : TRUE
                                   IN InQueue(p) + Total(T \ {p})
              IN Total(S)

\* C1: in every reachable state at most one inbound turn of the Message table
\* carries a given WhatsApp message id, however often the event is delivered.
C1_OneInboundTurnPerId ==
    \A m \in MsgIds : InboundTurns(m) <= 1

\* C2: for any message id, chat_with_mcp is entered at most once over all
\* deliveries of that event.
C2_OrchestratorAtMostOnce ==
    \A m \in MsgIds : chat_calls[m] <= 1

\* C3: a step removes a message from the queue only when it is the worker's
\* acknowledgement of that message after handle_webhook returned 200; the
\* acknowledgement step after any other status leaves the queue as it is.
C3_DeleteOnlyAfter200 ==
    [][ /\ \A p \in Payloads :
              InQueue(p)' < InQueue(p) => (pc = "ack" /\ cur = p /\ status_code = 200)
        /\ (pc = "ack" /\ status_code # 200) => queue' = queue ]_vars

\* Witness of C3: one message has been deleted after a 200 and the worker is
\* about to end a delivery that returned 500, the message still in the queue.
C3_Witness ==
    /\ pc = "ack"
    /\ status_code = 500
    /\ arrived = 2
    /\ QueueTotal = 1
    /\ queue[cur].inflight = 1

\* C4: within one delivery the orchestrator is invoked, and the outbound turn
\* written, only after the inbound turn of that delivery was stored
\* successfully.
C4_InboundBeforeOrchestrator ==
    \A i \in 1..Len(effects) :
        (effects[i].op = "llm" \/ (effects[i].op = "store_out" /\ effects[i].res = "ok"))
          => \E j \in 1..(i - 1) : effects[j].op = "store_in" /\ effects[j].res = "ok"

\* The current delivery has sent the reply text r to the sender.
Sent(r) == \E i \in 1..Len(effects) : effects[i].op = "send" /\ effects[i].arg = r

\* No backend or transport call of the current delivery has failed so far.
NoFailure == \A i \in 1..Len(effects) : effects[i].res = "ok"

\* C11: for a message whose sender is not a registered user, on the text path
\* and on the audio path, chat_with_mcp is never entered and no delivery of it
\* reaches generate_llm_response.
C11_UnknownSenderNoOrchestrator ==
    /\ \A m \in MsgIds : SenderOf(m) = "unknown" => chat_calls[m] = 0
    /\ (cur # NoPayload /\ SenderOf(cur.id) = "unknown")
          => \A i \in 1..Len(effects) : effects[i].op # "llm"

\* Witness of C11: a text message of an unregistered sender has been handled to
\* the end, its inbound turn stored and the fixed reply sent.
C11_Witness ==
    /\ pc = "ack"
    /\ cur.kind = "text"
    /\ SenderOf(cur.id) = "unknown"
    /\ messages[Turn("in", cur.id, NoUser)] > 0
    /\ Sent(NotRegistered)

\* C12: when a delivery of a message from an unregistered sender has sent the
\* fixed not-registered reply and none of its calls failed, the Message table
\* holds an inbound and an outbound turn carrying the message id (so that the
\* duplicate check of a redelivery finds it).
C12_UnknownSenderTurnsPersisted ==
    (/\ pc = "ack"
     /\ SenderOf(cur.id) = "unknown"
     /\ Sent(NotRegistered)
     /\ NoFailure)
      => /\ messages[Turn("in", cur.id, NoUser)] > 0
         /\ messages[Turn("out", cur.id, NoUser)] > 0
         /\ check_msg_exists(cur.id)

\* C13: handle_webhook returns for an audio event before the transcription of
\* that event has run: when the handler has returned, the delivery has made no
\* transcription call.
C13_AudioReturnsBeforeTranscription ==
    (pc = "ack" /\ cur.kind = "audio")
      => \A i \in 1..Len(effects) : effects[i].op # "transcribe"

\* A call to the backend failed, or the orchestrator raised, in this delivery.
NetworkFailure ==
    \E i \in 1..Len(effects) :
        \/ effects[i].op \in {"check", "lookup", "store_in", "store_out"}
              /\ effects[i].res = "failed"
        \/ effects[i].op = "llm" /\ effects[i].arg = "raised"

\* C16: when a backend call or the LLM call failed while a text message was
\* processed, handle_webhook returns a status other than 200.
C16_NetworkFailureNot200 ==
    (pc = "ack" /\ cur.kind = "text" /\ NetworkFailure) => status_code # 200

\* Queue bodies that are not valid JSON or lack the expected structure in a
\* way the handler cannot read.
MalformedKinds == {"badjson", "badentry", "malformed"}

\* C17: whenever the worker is back at its poll point, no malformed message is
\* left received-but-undeleted (to become visible and be delivered again).
C17_MalformedAcknowledged ==
    pc = "poll" =>
        \A p \in Payloads : p.kind \in MalformedKinds => queue[p].inflight = 0

\* C20: when the transmission of the reply to a text message failed,
\* handle_webhook returns a status other than 200.
C20_SendFailureNot200 ==
    (/\ pc = "ack"
     /\ cur.kind = "text"
     /\ \E i \in 1..Len(effects) : effects[i].op = "send" /\ effects[i].res = "failed")
      => status_code # 200

\* The check of the current delivery went through and found a stored turn.
DuplicateFound ==
    /\ Len(effects) >= 1
    /\ effects[1] = Effect("check", "", TRUE)
    /\ check_msg_exists(cur.id)

\* C22: the step in which the duplicate check finds a stored turn for the
\* message id returns 200 and changes neither the Message table nor the
\* orchestrator call count; the delivery consists of the check alone (no
\* download, no store, no LLM call, no send) up to its acknowledgement.
C22_DuplicateNoSideEffects ==
    [][(pc = "idem" /\ check_msg_exists(cur.id)
           /\ effects' = Append(effects, Effect("check", "", TRUE)))
         => /\ pc' = "ack"
            /\ status_code' = 200
            /\ Len(effects') = 1
            /\ messages' = messages
            /\ chat_calls' = chat_calls]_vars

\* Witness of C22: a redelivered text message whose first delivery stored its
\* turns has been recognised as a duplicate.
C22_Witness ==
    /\ pc = "ack"
    /\ cur.kind = "text"
    /\ DuplicateFound
    /\ Len(effects) = 1
    /\ status_code = 200
    /\ messages[Turn("in", cur.id, KnownUser)] = 1
    /\ messages[Turn("out", cur.id, KnownUser)] = 1
    /\ receives >= 2

\* Events that are no text or audio message of a user.
NoOpKinds == {"status", "nomsg", "other"}

\* C23: when handle_webhook has returned for a delivery-status event, an event
\* without message or a message of another type, the status is 200 and the
\* delivery has stored no turn, called no LLM and sent nothing: its only
\* possible call is the duplicate check.
C23_NoOpEventsAcknowledged ==
    /\ [][(pc \in {"handle", "idem"} /\ cur.kind \in NoOpKinds)
            => (messages' = messages /\ chat_calls' = chat_calls)]_vars
    /\ []((pc = "ack" /\ cur.kind \in NoOpKinds)
            => /\ status_code = 200
               /\ \A i \in 1..Len(effects) : effects[i].op = "check")

\* Witness of C23: an image message went through the duplicate check and was
\* answered 200; a delivery-status event was acknowledged before it.
C23_Witness ==
    /\ pc = "ack"
    /\ cur.kind = "other"
    /\ status_code = 200
    /\ Len(effects) = 1
    /\ arrived = 2
    /\ QueueTotal = 1

\* C24: in a delivery of an audio message every transcription is preceded by
\* the sending of the "processing" courtesy message.
C24_CourtesyBeforeTranscription ==
    \A i \in 1..Len(effects) :
        effects[i].op = "transcribe"
          => \E j \in 1..(i - 1) : effects[j].op = "send" /\ effects[j].arg = "processing"

\* The texts that tell the sender that something went wrong.
ErrorTexts ==
    {"download_error", "transcript_error", "heard_nothing", "audio_apology",
     "ai_error", "system_error", "user_not_found"}

\* A step of the audio handling failed in this delivery.
AudioStepFailed ==
    \E i \in 1..Len(effects) :
        \/ effects[i].op \in {"download", "transcribe", "store_in", "store_out"}
              /\ effects[i].res = "failed"
        \/ effects[i].op = "llm" /\ effects[i].arg = "raised"

\* C25: when handle_webhook has returned for an audio message one of whose
\* steps failed, exactly one error text has been sent to the sender and the
\* status is 200 (the message is acknowledged).
C25_AudioFailureOneErrorMessage ==
    (pc = "ack" /\ cur.kind = "audio" /\ AudioStepFailed) =>
        /\ Cardinality({i \in 1..Len(effects) :
                           effects[i].op = "send" /\ effects[i].arg \in ErrorTexts}) = 1
        /\ status_code = 200

\* C27: in a delivery in which the transcription returned a string with the
\* error marker, no inbound turn is stored and the orchestrator is not
\* called; the transcript is only sent to the user.
C27_ErrorTranscriptNotProcessed ==
    \A i \in 1..Len(effects) :
        (effects[i].op = "transcribe" /\ effects[i].arg = "error") =>
            /\ \A j \in (i + 1)..Len(effects) : effects[j].op = "send"
            /\ i < Len(effects) => effects[i + 1].arg = "transcript_error"
            /\ pc # "a_store_in"

\* Witness of C27: the error transcript of an audio message of a registered
\* user has been sent back and the handler has returned.
C27_Witness ==
    /\ pc = "ack"
    /\ cur.kind = "audio"
    /\ Len(effects) = 5
    /\ effects[4] = Effect("transcribe", "error", FALSE)
    /\ effects[5] = Effect("send", "transcript_error", TRUE)
    /\ \A turn \in Turns : messages[turn] = 0

\* C30: when the orchestrator call of a delivery failed, the handler returns
\* normally and every text sent in that delivery is the fixed apology.
C30_OrchestratorFailureApology ==
    (\E i \in 1..Len(effects) : effects[i].op = "llm" /\ effects[i].arg = "raised") =>
        /\ reply = "ai_error"
        /\ \A j \in 1..Len(effects) : effects[j].op = "send" => effects[j].arg = "ai_error"
        /\ pc = "ack" => status_code = 200

\* Witness of C30: a text message whose orchestrator call raised has been
\* answered with the apology.
C30_Witness ==
    /\ pc = "ack"
    /\ cur.kind = "text"
    /\ chat_calls[cur.id] = 1
    /\ \E i \in 1..Len(effects) : effects[i] = Effect("llm", "raised", TRUE)
    /\ effects[Len(effects)] = Effect("send", "ai_error", TRUE)

\* C37: when the duplicate lookup fails, the delivery is never taken for a
\* duplicate: a text message goes on to the user lookup and an audio message
\* to the media download, also when a turn with its id is already stored.
C37_FailedLookupProcessesAsNew ==
    [][(pc = "idem" /\ effects' = Append(effects, Effect("check", "", FALSE))) =>
          /\ cur.kind = "text" => pc' = "lookup"
          /\ cur.kind = "audio" => pc' = "a_download"
          /\ pc' = "ack" => cur.kind \notin {"text", "audio"}
          /\ messages' = messages]_vars

\* Witness of C37: a redelivered text message, stored by an earlier
\* delivery, was processed again after its lookup failed and is stored twice.
C37_Witness ==
    /\ pc = "ack"
    /\ cur.kind = "text"
    /\ receives >= 2
    /\ effects[1] = Effect("check", "", FALSE)
    /\ messages[Turn("in", cur.id, KnownUser)] = 2
    /\ chat_calls[cur.id] = 2

(***************************************************************************)
(* Properties of the orchestrator (SpecLLM)                                *)
(***************************************************************************)
AllTransient ==
    /\ Len(errors) = invocations
    /\ \A i \in 1..Len(errors) : is_tool_error(errors[i])

\* C5: while every LLM invocation of a call raises a transient tool-validation
\* error, the call makes at most max_retries + 1 invocations, and it has
\* raised to its caller exactly when it has made max_retries + 1 of them.
C5_RetryBound ==
    (llm_pc # "idle" /\ AllTransient) =>
        /\ invocations <= max_retries + 1
        /\ (llm_pc = "raised") <=> (invocations = max_retries + 1)

\* Witness of C5: a call with max_retries = 2 has raised after three
\* invocations that all failed with a transient error.
C5_Witness ==
    /\ llm_pc = "raised"
    /\ max_retries = 2
    /\ AllTransient
    /\ invocations = 3
    /\ sleeps = <<1, 2>>

\* C28: an exception whose message holds none of the transient substrings is
\* the last one of the call: chat_with_mcp has re-raised, it made no
\* invocation after the one that failed and slept only after the errors
\* before it.
C28_NonTransientRaisesAtOnce ==
    llm_pc # "idle" =>
        \A i \in 1..Len(errors) :
            errors[i] = {} =>
                /\ i = Len(errors)
                /\ llm_pc = "raised"
                /\ invocations = i
                /\ Len(sleeps) = i - 1

\* Witness of C28: after one retried error a non-transient error was raised
\* at the second attempt, with retries still left.
C28_Witness ==
    /\ llm_pc = "raised"
    /\ max_retries = 3
    /\ Len(errors) = 2
    /\ errors[1] # {}
    /\ errors[2] = {}
    /\ invocations = 2
    /\ sleeps = <<1>>

\* The text of the first item of output that is a message with an
\* output_text content, or the fallback string.
FirstText(output) ==
    LET withText == {i \in 1..Len(output) :
                        output[i] \in {"message:a", "message:b", "message:blank"}}
    IN IF withText = {} THEN "No response generated."
       ELSE LET k == CHOOSE i \in withText : \A j \in withText : i <= j
            IN CASE output[k] = "message:a" -> "a"
                 [] output[k] = "message:b" -> "b"
                 [] output[k] = "message:blank" -> ""

\* C29: when chat_with_mcp has returned, the successful invocation was its
\* last one (one more than the errors before it, and none follows), and the
\* value returned is the text of the first output_text content in output
\* order, or "No response generated." when there is none.
C29_ReturnsFirstText ==
    /\ [](llm_pc = "returned" =>
            /\ result = FirstText(response)
            /\ invocations = Len(errors) + 1)
    /\ [][llm_pc = "returned" => invocations' = invocations]_vars

\* Witness of C29: after one retry the response holds a tool item and a
\* message without text, and the fallback string was returned.
C29_Witness ==
    /\ llm_pc = "returned"
    /\ response = <<"tool_use", "message:empty">>
    /\ result = "No response generated."
    /\ Len(errors) = 1
    /\ invocations = 2

(***************************************************************************)
(* Properties of the scheduler (SpecSched)                                 *)
(***************************************************************************)
Occurrences(r, seq) == Cardinality({i \in 1..Len(seq) : seq[i] = r})

NonDecreasing(seq) ==
    \A i, j \in 1..Len(seq) : i < j => Urgency(seq[i]) <= Urgency(seq[j])

\* C6: while a task keeps its tracking entry (it is in the active set of every
\* sweep), each reminder type is sent to its assignees in at most one sweep,
\* so no assignee gets it twice; and a run of check_deadlines that follows a
\* run with the same clock and the same tasks sends nothing.
C6_EachTierAtMostOnce ==
    /\ [](\A t \in TaskIds : \A r \in ReminderTypes : Occurrences(r, notified[t]) <= 1)
    /\ [][fresh => notified' = notified]_vars

\* Witness of C6: a task with two assignees stayed active, has been notified
\* of two reminder types, and check_deadlines has just run.
C6_Witness ==
    /\ fresh
    /\ tasks[1].assignees = Assignees
    /\ Len(notified[1]) >= 2

\* C7 (as claimed): for every task the reminder types notified since its
\* tracking entry was created are in non-decreasing order of urgency.
C7_TiersNonDecreasing ==
    \A t \in TaskIds : NonDecreasing(notified[t])

\* C7 (amended): for every task whose deadline has not been moved later while
\* it is tracked, the reminder types notified since its tracking entry was
\* created are in non-decreasing order of urgency.
C7_TiersNonDecreasingUnlessPostponed ==
    \A t \in TaskIds : ~postponed[t] => NonDecreasing(notified[t])

\* Witness of C7: a task whose deadline was never postponed has been notified
\* of all three reminder types.
C7_Witness ==
    \E t \in TaskIds : ~postponed[t] /\ Len(notified[t]) = 3

\* C8: once a check_deadlines cycle (whose fetch succeeded) has run after a
\* task became completed or cancelled, sent_reminders has no entry for it.
C8_ClosedTaskUntracked ==
    \A t \in TaskIds : (tasks[t].status \in Closed /\ swept[t]) => t \notin Tracked

(***************************************************************************)
(* Properties of the ingress (SpecIngress)                                 *)
(***************************************************************************)

\* C9: a POST whose signature does not match the HMAC of the raw body under
\* the app secret gets a 4xx status and puts nothing on the queue.
C9_BadSignatureRejected ==
    (posts > 0 /\ ~validate_signature(last_post.signature, last_post.secret)) =>
        /\ last_post.status \in 400..499
        /\ ~last_post.attempted

\* C10: every POST sends at most one message to the queue; a POST answered
\* with 200 has put exactly the received raw body on the queue, and a POST
\* that put nothing on the queue is answered with an error status.
C10_VerbatimEnqueue ==
    posts > 0 =>
        /\ Len(last_post.sent) <= 1
        /\ last_post.status = 200 => last_post.sent = <<last_post.raw>>
        /\ last_post.sent = <<>> => last_post.status >= 400

(***************************************************************************)
(* Properties of the tool-name sanitizer (SpecTools)                       *)
(***************************************************************************)

\* C18: after sanitize_tool_calls has run on a tool_use item, a name that was
\* emitted as a clean tool name followed by a suffix matching the corruption
\* pattern is exactly the clean name, and a name in which the pattern matches
\* nowhere is the name as emitted.
C18_SanitizeRestoresCleanName ==
    (tool_pc = "sanitized" /\ tool_item.type = "tool_use") =>
        /\ tool_emitted.kind = "suffix" => tool_item.name = tool_emitted.clean
        /\ ~HasMatch(EmittedName(tool_emitted)) => tool_item.name = EmittedName(tool_emitted)

\* Witness of C18: a name with a suffix whose token and word are both longer
\* than one character has been sanitized back to the clean name.
C18_Witness ==
    /\ tool_pc = "sanitized"
    /\ tool_item.type = "tool_use"
    /\ tool_emitted.kind = "suffix"
    /\ Len(tool_emitted.tail) >= 8
    /\ tool_item.name = tool_emitted.clean
    /\ tool_log[1].name # tool_item.name

\* C19: within one orchestration pass every dispatch of a tool call comes
\* after a sanitization, and the name it is dispatched under carries no
\* corrupted suffix.
C19_SanitizedBeforeDispatch ==
    \A i \in 1..Len(tool_log) :
        tool_log[i].ev = "dispatch" =>
            /\ \E j \in 1..(i - 1) : tool_log[j].ev = "sanitize"
            /\ ~HasMatch(tool_log[i].name)

\* C38: a sanitized tool name is a fixed point of sanitize_tool_calls, and
\* the corruption pattern matches nowhere in it.
C38_SanitizeIdempotent ==
    (tool_pc = "sanitized" /\ tool_item.type = "tool_use") =>
        /\ sanitize_tool_calls(tool_item) = tool_item
        /\ ~HasMatch(tool_item.name)

(***************************************************************************)
(* Properties of the transcription (SpecTranscribe)                        *)
(***************************************************************************)

\* Step outcomes that are failures other than a size/duration-limit status of
\* the real-time request.
TrFailures ==
    {"http_500", "timeout", "connection", "write_raised", "failed", "job_raised",
     "nofile", "download_raised", "parse_raised"}
TrFailed == \E i \in 1..Len(tr_path) : tr_path[i] \in TrFailures
TookBatchPath == \E i \in 1..Len(tr_path) : tr_path[i] \in {"written", "write_raised"}

\* C14: the worker's transcribe_sarvam_audio never lets an exception escape,
\* and after any failure of the real-time request (other than a size-limit
\* status) or of the batch path it returns a string starting with "Error:".
C14_TranscribeNeverRaises ==
    (tr_pc = "done" /\ tr_impl = "worker") =>
        /\ ~tr_result.raised
        /\ TrFailed => tr_result.text = "error"

\* C15: once a call of transcribe_sarvam_audio that took the batch fallback
\* has returned, neither the scratch input file nor the output directory of
\* that implementation exists.
C15_ScratchRemoved ==
    (tr_pc = "done" /\ TookBatchPath) =>
        /\ InputFile(tr_impl) \notin tr_files
        /\ OutputDir(tr_impl) \notin tr_files

\* C26: in the worker's transcribe_sarvam_audio the batch path has been
\* entered exactly when the real-time request answered 400 or 413; after a
\* successful real-time request the function has returned that transcript
\* and nothing of the temporary directory exists.
C26_BatchIffSizeLimit ==
    (tr_impl = "worker" /\ Len(tr_path) >= 1) =>
        /\ (tr_pc = "batch_write" \/ Len(tr_path) >= 2)
              <=> tr_path[1] \in {"http_400", "http_413"}
        /\ tr_path[1] \in {"transcript", "empty"} =>
              /\ tr_pc = "done"
              /\ tr_result = [raised |-> FALSE, text |-> tr_path[1]]
              /\ tr_files \cap Under(TempDir) = {}

\* Witness of C26: a 413 of the real-time request was followed by a complete
\* batch run that returned a transcript.
C26_Witness ==
    /\ tr_impl = "worker"
    /\ tr_pc = "done"
    /\ tr_path = <<"http_413", "written", "successful", "json", "transcript">>
    /\ tr_result.text = "transcript"

(***************************************************************************)
(* Properties of the authentication (SpecAuth)                             *)
(***************************************************************************)

\* The request auth_log[j] presents a token that an earlier, successful
\* logout was made with.
AfterLogout(j) ==
    \E i \in 1..(j - 1) :
        /\ auth_log[i].endpoint = "logout"
        /\ auth_log[i].status = 200
        /\ auth_log[i].token = auth_log[j].token

\* C21: every request that presents a token after a successful logout with
\* that token is answered 401 with the detail "Token has been invalidated".
C21_LoggedOutTokenRejected ==
    \A j \in 1..Len(auth_log) :
        AfterLogout(j) =>
            /\ auth_log[j].status = 401
            /\ auth_log[j].detail = "Token has been invalidated"

(***************************************************************************)
(* Properties of the scheduler jobs (SpecJobs)                             *)
(***************************************************************************)

\* The tier the claim gives for m minutes until the deadline.
TierClaimed(m) ==
    IF m <= 0 THEN "overdue"
    ELSE IF m <= 10 THEN "10min"
    ELSE IF m <= 60 THEN "60min"
    ELSE "none"

DeadlineSends == {i \in 1..Len(job_log) : job_log[i].job = "deadlines"}

\* C31: every notification of a sweep is of the tier that belongs to the
\* task's minutes until the deadline (overdue up to 0, 10min up to 10, 60min
\* up to 60, nothing beyond), and all notifications of one task in one sweep
\* are of one tier.
C31_OneTierFromMinutes ==
    /\ \A i \in DeadlineSends :
          /\ job_log[i].type = TierClaimed(job_log[i].minutes)
          /\ job_log[i].type # "none"
    /\ \A i, j \in DeadlineSends :
          job_log[i].id = job_log[j].id => job_log[i].type = job_log[j].type
    /\ job_pc = "send" =>
          /\ job_cur.type = TierClaimed(job_cur.minutes)
          /\ job_cur.type # "none"

\* Witness of C31: a finished sweep notified both assignees of task 1, 60
\* minutes before its deadline, with the 60min tier and the assignee of
\* task 2 with the 10min tier.
C31_Witness ==
    /\ job = "deadlines"
    /\ job_pc = "idle"
    /\ Len(job_log) = 3
    /\ job_log[1].id = 1 /\ job_log[1].minutes = 60 /\ job_log[1].type = "60min"
    /\ job_log[2].id = 1 /\ job_log[2].type = "60min"
    /\ job_log[3].id = 2 /\ job_log[3].minutes = 5 /\ job_log[3].type = "10min"

\* r is in the tracking set of task t.
Marked(sr, t, r) == t \in DOMAIN sr /\ r \in sr[t]

\* C32: a tier label enters a task's tracking set only when a notification
\* of that tier for that task was transmitted with status 200 in the sweep.
C32_MarkedOnlyAfterSuccess ==
    [][\A t \in TaskIds : \A r \in ReminderTypes :
          (Marked(sent_reminders', t, r) /\ ~Marked(sent_reminders, t, r)) =>
              \E i \in 1..Len(job_log) :
                  /\ job_log[i].id = t
                  /\ job_log[i].type = r
                  /\ job_log[i].outcome = "200"]_vars

\* C33: a run of check_deadlines whose list request fails ends at once; it
\* transmits nothing and leaves sent_reminders as it was.
C33_FetchFailureSkipsCycle ==
    /\ [][(job_pc = "idle" /\ job' = "deadlines" /\ job_fetch' = "failed") =>
             /\ sent_reminders' = sent_reminders
             /\ job_log' = <<>>
             /\ job_pc' = "idle"]_vars
    /\ []((job = "deadlines" /\ job_fetch = "failed") =>
             (job_pc = "idle" /\ job_log = <<>>))

\* Witness of C33: the list request failed while two tiers of task 1 were
\* tracked from earlier sweeps.
C33_Witness ==
    /\ job = "deadlines"
    /\ job_fetch = "failed"
    /\ job_pc = "idle"
    /\ job_log = <<>>
    /\ Marked(sent_reminders, 1, "60min")
    /\ Marked(sent_reminders, 1, "10min")

ReportSends(u, type) ==
    {i \in 1..Len(job_log) :
        /\ job_log[i].job = "reports"
        /\ job_log[i].id = u
        /\ job_log[i].type = type}

\* C35: in a run of send_daily_reports an assigned report is transmitted
\* only to a user with can_assign whose assigned data holds assigned tasks,
\* and no user is sent more than one personal report or more than one
\* assigned report.
C35_AssignedReportOnlyForAssigners ==
    /\ [][(Len(job_log') = Len(job_log) + 1
             /\ job_log'[Len(job_log')].type = "assigned") =>
                /\ job_pc = "assigned"
                /\ Head(job_users).can_assign
                /\ Head(job_users).id = job_log'[Len(job_log')].id
                /\ job_data' = "tasks"]_vars
    /\ [](\A u \in {1, 2} : \A type \in {"personal", "assigned"} :
             Cardinality(ReportSends(u, type)) <= 1)

\* Witness of C35: a finished run sent both reports to user 1 and to user 2.
C35_Witness ==
    /\ job = "reports"
    /\ job_pc = "idle"
    /\ Len(job_log) = 4
    /\ \A u \in {1, 2} : \A type \in {"personal", "assigned"} :
          Cardinality(ReportSends(u, type)) = 1

\* C36: a transmission that does not answer 200, or raises, is followed by
\* the next step of the same loop (the next assignee, the assigned report,
\* the next user), a report data request that fails likewise, and a job ends
\* only when nothing of its lists is left.
C36_FailureNeverAbortsJob ==
    /\ [][(Len(job_log') = Len(job_log) + 1
             /\ job_log'[Len(job_log')].outcome # "200") =>
                LET last == job_log'[Len(job_log')]
                IN CASE last.job = "deadlines" ->
                          /\ job_pc' = "send"
                          /\ job_todo' = Tail(job_todo)
                          /\ job_tasks' = job_tasks
                     [] last.type = "personal" ->
                          /\ job_pc' = "assigned"
                          /\ job_users' = job_users
                     [] last.type = "assigned" ->
                          /\ job_pc' = "personal"
                          /\ job_users' = Tail(job_users)]_vars
    /\ [][(job_pc \in {"personal", "assigned"} /\ job_data' \in {"empty", "error"}
             /\ job_pc' \in {"personal", "assigned"} \ {job_pc}) =>
                /\ job_log' = job_log
                /\ job_pc' = IF job_pc = "personal" THEN "assigned" ELSE "personal"
                /\ job_users' = IF job_pc = "personal" THEN job_users
                                ELSE Tail(job_users)]_vars
    /\ [](job_pc = "idle" =>
             (job_tasks = <<>> /\ job_users = <<>> /\ job_todo = <<>>))

\* Witness of C36: in a finished sweep the notification of the first
\* assignee of task 1 raised and that of the second was answered 500, and
\* the assignee of task 2 was notified after both.
C36_Witness ==
    /\ job = "deadlines"
    /\ job_pc = "idle"
    /\ Len(job_log) = 3
    /\ job_log[1].id = 1 /\ job_log[1].phone = "p1" /\ job_log[1].outcome = "raised"
    /\ job_log[2].id = 1 /\ job_log[2].phone = "p2" /\ job_log[2].outcome = "500"
    /\ job_log[3].id = 2 /\ job_log[3].outcome = "200"

(***************************************************************************)
(* Properties of the task endpoints (SpecTasks)                            *)
(***************************************************************************)

\* C40: while the task's status is cancelled, no request changes the task
\* row or its assignees and none sends a notification; update, assign,
\* assign-multiple, unassign and the checklist requests are answered 403, and
\* a repeated cancel is answered 200 (403 without the manager role).
C40_CancelledStaysCancelled ==
    [][task_row.status = "cancelled" =>
          /\ task_row' = task_row
          /\ task_row'.status = "cancelled"
          /\ task_assignees' = task_assignees
          /\ task_reply' # task_reply =>
                /\ task_reply'.notified = {}
                /\ IF task_reply'.op = "cancel_task"
                     THEN task_reply'.code \in {200, 403}
                     ELSE task_reply'.code = 403]_vars

\* Witness of C40: a checklist removal on a cancelled task that has an
\* assignee and a checklist item was answered 403.
C40_Witness ==
    /\ task_row.status = "cancelled"
    /\ task_row.cancellation_reason = "r1"
    /\ task_assignees = {1, 2}
    /\ Len(task_row.checklist) = 2
    /\ task_reply = [op |-> "remove_checklist_item", code |-> 403, notified |-> {}]

(***************************************************************************)
(* Properties of the job executor (SpecExec)                               *)
(***************************************************************************)

====
